---- MODULE Spec2Model ----
(***************************************************************************)
(* Model of the arbor-encoder tokenizer: vocabulary bootstrap              *)
(* (NewTokenizer), the Tokenize pipeline (Transform -> Element.String ->   *)
(* Encode -> getPaddedPaths) and the decoder (DecodeXML).                  *)
(*                                                                         *)
(* Strings are sequences of atoms.  The punctuation the code inspects      *)
(* ("<", "/", ">", "@", "__", " ", "=", the double quote) is one atom      *)
(* each, so that the prefix tests, trims and concatenations of the code    *)
(* are computed on the sequence; a word that the code never looks into     *)
(* ("Key", "A", "arbor-ordered") is a single atom.                         *)
(***************************************************************************)
EXTENDS Integers, Sequences, FiniteSets, Bags, TLC

VARIABLES
  pc,        \* position of the caller: which call is running or how it ended
  vocabFile, \* the decoded JSON vocabulary handed to NewTokenizer
  doc,       \* the document (a tree) whose markup is the input of Tokenize
  input,     \* the markup read by Tokenize
  tk,        \* the Tokenizer: [vocab, vocabInv]
  enc,       \* call-local state of Encoder.Encode
  dec,       \* call-local state of Tokenizer.DecodeXML
  result,    \* what the last call returned: [ok, Tokens, PaddedPaths, err]
  tree,      \* what DecodeXML returned: [ok, heap, root, err]
  calls      \* further calls, made directly or by other goroutines: call records

vars == <<pc, vocabFile, doc, input, tk, enc, dec, result, tree, calls>>

-----------------------------------------------------------------------------
(* Bounds of the model *)

\* largest size of an input document (elements + attributes + text atoms)
MaxSize == 4

-----------------------------------------------------------------------------
(* Go's strings package, as used by the code *)

HasPrefix(s, p) == Len(s) >= Len(p) /\ SubSeq(s, 1, Len(p)) = p

HasSuffix(s, p) == Len(s) >= Len(p) /\ SubSeq(s, Len(s) - Len(p) + 1, Len(s)) = p

TrimPrefix(s, p) == IF HasPrefix(s, p) THEN SubSeq(s, Len(p) + 1, Len(s)) ELSE s

TrimSuffix(s, p) == IF HasSuffix(s, p) THEN SubSeq(s, 1, Len(s) - Len(p)) ELSE s

RECURSIVE TrimLeft(_, _)
TrimLeft(s, cutset) ==
  IF s # <<>> /\ Head(s) \in cutset THEN TrimLeft(Tail(s), cutset) ELSE s

RECURSIVE TrimRight(_, _)
TrimRight(s, cutset) ==
  IF s # <<>> /\ s[Len(s)] \in cutset
  THEN TrimRight(SubSeq(s, 1, Len(s) - 1), cutset) ELSE s

\* strings.Trim(s, cutset)
Trim(s, cutset) == TrimRight(TrimLeft(s, cutset), cutset)

\* strings.TrimSpace(s)
TrimSpace(s) == Trim(s, {" "})

\* strings.Join(list, sep)
RECURSIVE Join(_, _)
Join(list, sep) ==
  IF list = <<>> THEN <<>>
  ELSE IF Len(list) = 1 THEN list[1]
  ELSE list[1] \o sep \o Join(Tail(list), sep)

-----------------------------------------------------------------------------
(* Constants of the package *)

ArborOrderedAttribute == <<"arbor-ordered">>
TokenRegisteredAttr == <<"<", "__", "RegisteredAttr", ">">>
TokenUnregisteredAttr == <<"<", "__", "UnregisteredAttr", ">">>
TokenUnregisteredAttrEnd == <<"<", "/", "__", "UnregisteredAttr", ">">>
TokenKey == <<"<", "__", "Key", ">">>
TokenKeyEnd == <<"<", "/", "__", "Key", ">">>
TokenValue == <<"<", "__", "Value", ">">>
TokenValueEnd == <<"<", "/", "__", "Value", ">">>
TokenEmpty == <<"<", "__", "Empty", "/", ">">>
Cl100kBaseMaxID == 100500
VirtualAttrTag == <<"__", "RegisteredAttr">>

\* decoder.go still uses the former names of the bucket tokens
TokenAttrPair == TokenUnregisteredAttr
TokenAttrPairEnd == TokenUnregisteredAttrEnd

-----------------------------------------------------------------------------
(* The content tokenizer (tiktoken cl100k_base), an injected dependency:    *)
(* every atom of free text is one content token, its id the atom's place   *)
(* in ContentAtoms.  All content ids lie far below Cl100kBaseMaxID.        *)

ContentAtoms == <<"t", "v", "@", "<", " ", "foo", "id">>

ContentIds == 1..Len(ContentAtoms)

ContentId(a) == CHOOSE i \in ContentIds : ContentAtoms[i] = a

\* contentTokenizer.Encode(content, nil, nil)
ContentEncode(s) == [i \in 1..Len(s) |-> ContentId(s[i])]

\* contentTokenizer.Decode(ids)
ContentDecode(ids) == [i \in 1..Len(ids) |-> ContentAtoms[ids[i]]]

-----------------------------------------------------------------------------
(* encoding/xml: escaping, and the token stream of xml.Decoder             *)

\* xml.EscapeText, one atom at a time
EscapeAtom(a) ==
  CASE a = "<" -> "&lt;"
    [] a = ">" -> "&gt;"
    [] a = "&" -> "&amp;"
    [] a = "\"" -> "&#34;"
    [] OTHER -> a

EscapeText(s) == [i \in 1..Len(s) |-> EscapeAtom(s[i])]

UnescapeAtom(a) ==
  CASE a = "&lt;" -> "<"
    [] a = "&gt;" -> ">"
    [] a = "&amp;" -> "&"
    [] a = "&#34;" -> "\""
    [] OTHER -> a

UnescapeText(s) == [i \in 1..Len(s) |-> UnescapeAtom(s[i])]

StartElement(name, attr) == [type |-> "start", name |-> name, attr |-> attr, data |-> <<>>]
EndElement(name) == [type |-> "end", name |-> name, attr |-> <<>>, data |-> <<>>]
CharData(data) == [type |-> "chardata", name |-> <<>>, attr |-> <<>>, data |-> data]
SyntaxError == [type |-> "error", name |-> <<>>, attr |-> <<>>, data |-> <<>>]

\* the syntax error of an end tag met with no element open: its message is
\* "unexpected end element </name>"
UnexpectedEnd(name) == [type |-> "error", name |-> name, attr |-> <<>>, data |-> <<>>]

\* a comment, written <!--c-->, is one atom of the markup and one token
CommentMarkup == "<!--c-->"
Comment == [type |-> "comment", name |-> <<>>, attr |-> <<>>, data |-> <<>>]

Attr(name, value) == [name |-> name, value |-> value]

\* least j >= i with m[j] = a, or 0 when there is none
IndexFrom(m, i, a) ==
  IF \E j \in i..Len(m) : m[j] = a
  THEN CHOOSE j \in i..Len(m) : m[j] = a /\ \A k \in i..(j - 1) : m[k] # a
  ELSE 0

\* the attributes of a start tag: ( " " name "=" quote value quote )*
RECURSIVE ParseAttrs(_, _)
ParseAttrs(inner, k) ==
  IF k > Len(inner) THEN <<>>
  ELSE LET e == IndexFrom(inner, k + 1, "=")
           q == IndexFrom(inner, e + 2, "\"")
       IN  <<Attr(SubSeq(inner, k + 1, e - 1), UnescapeText(SubSeq(inner, e + 2, q - 1)))>>
             \o ParseAttrs(inner, q + 1)

\* The successive results of decoder.Token() on markup m from position i, with
\* `open` the names of the elements still open.  A syntax error (an end tag
\* that closes nothing or the wrong element, markup cut inside a tag, input
\* ending with an element open) is the last token delivered.
RECURSIVE XmlScan(_, _, _)
XmlScan(m, i, open) ==
  IF i > Len(m) THEN (IF open = <<>> THEN <<>> ELSE <<SyntaxError>>)
  ELSE IF m[i] = CommentMarkup THEN <<Comment>> \o XmlScan(m, i + 1, open)
  ELSE IF m[i] = "<"
  THEN LET j == IndexFrom(m, i + 1, ">") IN
       IF j = 0 THEN <<SyntaxError>>
       ELSE IF m[i + 1] = "/"
       THEN LET name == SubSeq(m, i + 2, j - 1) IN
            IF open = <<>> THEN <<UnexpectedEnd(name)>>
            ELSE IF open[Len(open)] # name THEN <<SyntaxError>>
            ELSE <<EndElement(name)>> \o XmlScan(m, j + 1, SubSeq(open, 1, Len(open) - 1))
       ELSE LET inner == SubSeq(m, i + 1, j - 1)
                sp == IndexFrom(inner, 1, " ")
                k == IF sp = 0 THEN Len(inner) + 1 ELSE sp
                name == SubSeq(inner, 1, k - 1)
            IN  IF name = <<>> THEN <<SyntaxError>>
                ELSE <<StartElement(name, ParseAttrs(inner, k))>>
                       \o XmlScan(m, j + 1, Append(open, name))
  ELSE LET lt == IndexFrom(m, i, "<")
           cm == IndexFrom(m, i, CommentMarkup)
           j == IF lt = 0 /\ cm = 0 THEN Len(m) + 1
                ELSE IF lt = 0 THEN cm
                ELSE IF cm = 0 \/ lt < cm THEN lt
                ELSE cm
       IN  <<CharData(UnescapeText(SubSeq(m, i, j - 1)))>> \o XmlScan(m, j, open)

\* xml.NewDecoder(r) followed by Token() until io.EOF or an error
XmlTokens(m) == XmlScan(m, 1, <<>>)

-----------------------------------------------------------------------------
(* Element and its serialization.  An Element tree lives in a heap: a       *)
(* sequence of Elements, a pointer being an index (0 is nil).              *)

NewElement(name, attrs) == [Name |-> name, Attributes |-> attrs, Children |-> <<>>]
ChildElement(ref) == [isEl |-> TRUE, ref |-> ref, text |-> <<>>]
ChildText(s) == [isEl |-> FALSE, ref |-> 0, text |-> s]

RECURSIVE AttrsText(_)
AttrsText(attrs) ==
  IF attrs = <<>> THEN <<>>
  ELSE <<" ">> \o attrs[1].name \o <<"=", "\"">> \o EscapeText(attrs[1].value) \o <<"\"">>
         \o AttrsText(Tail(attrs))

RECURSIVE writeTo(_, _)
RECURSIVE writeChildren(_, _)
writeChildren(heap, children) ==
  IF children = <<>> THEN <<>>
  ELSE (IF children[1].isEl THEN writeTo(heap, children[1].ref)
        ELSE EscapeText(children[1].text))
         \o writeChildren(heap, Tail(children))

\* Element.writeTo
writeTo(heap, e) ==
  <<"<">> \o heap[e].Name \o AttrsText(heap[e].Attributes) \o <<">">>
    \o writeChildren(heap, heap[e].Children)
    \o <<"<", "/">> \o heap[e].Name \o <<">">>

\* Element.String
String(heap, e) == writeTo(heap, e)

-----------------------------------------------------------------------------
(* Errors.  `what` lists the strings the message names, `id` the id it names. *)

NoError == [kind |-> "none", what |-> <<>>, id |-> 0]
Error(kind, what) == [kind |-> kind, what |-> what, id |-> 0]

\* the error of decoder.Token(), returned as it is: "what" is the end tag that
\* closed nothing, if that was the error
TokenError(ev) ==
  Error("MalformedMarkup", IF ev.name = <<>> THEN <<>> ELSE <<<<"<", "/">> \o ev.name \o <<">">>>>)

-----------------------------------------------------------------------------
(* Transformer *)

\* byte order of the attribute names that occur, as Go's < on strings gives it
NameOrder == <<"arbor-ordered", "foo", "id">>

AtomRank(a) ==
  IF \E i \in 1..Len(NameOrder) : NameOrder[i] = a
  THEN CHOOSE i \in 1..Len(NameOrder) : NameOrder[i] = a
  ELSE 0

RECURSIVE StringLess(_, _)
StringLess(a, b) ==
  IF b = <<>> THEN FALSE
  ELSE IF a = <<>> THEN TRUE
  ELSE IF AtomRank(Head(a)) # AtomRank(Head(b)) THEN AtomRank(Head(a)) < AtomRank(Head(b))
  ELSE StringLess(Tail(a), Tail(b))

RECURSIVE InsertAttr(_, _)
InsertAttr(sorted, a) ==
  IF sorted = <<>> THEN <<a>>
  ELSE IF StringLess(a.name, Head(sorted).name) THEN <<a>> \o sorted
  ELSE <<Head(sorted)>> \o InsertAttr(Tail(sorted), a)

\* a Transformer that leaves the attributes in the order they were written
SortAttrsAsWritten(attrs) == attrs

\* sort.Slice(se.Attr, func(i, j) { return se.Attr[i].Name.Local < se.Attr[j].Name.Local })
RECURSIVE SortAttrs(_)
SortAttrs(attrs) ==
  IF attrs = <<>> THEN <<>>
  ELSE InsertAttr(SortAttrs(SubSeq(attrs, 1, Len(attrs) - 1)), attrs[Len(attrs)])

AppendChild(heap, parent, child) ==
  [heap EXCEPT ![parent].Children = Append(@, child)]

\* the six control tokens the fallback needs, in the order the code tests them
\* a fallback list that does not ask for the key-open token
FallbackTokensButKey ==
  <<TokenUnregisteredAttr, TokenUnregisteredAttrEnd, TokenKeyEnd, TokenValue,
    TokenValueEnd>>

\* the tokens processAttributeToElement requires for an unregistered attribute
FallbackTokens ==
  <<TokenUnregisteredAttr, TokenUnregisteredAttrEnd, TokenKey, TokenKeyEnd,
    TokenValue, TokenValueEnd>>

RECURSIVE MissingOf(_, _)
MissingOf(vocab, toks) ==
  IF toks = <<>> THEN <<>>
  ELSE (IF Head(toks) \in DOMAIN vocab THEN <<>> ELSE <<Head(toks)>>)
         \o MissingOf(vocab, Tail(toks))

\* a processAttributeToElement that leaves the value slot of an empty value empty,
\* marker token or not
processAttributeToElementUnmarked(vocab, heap, parent, attr) ==
  LET attrName == <<"@">> \o attr.name
      hasEmpty == FALSE
      n == Len(heap)
  IN
  IF attrName \in DOMAIN vocab
  THEN \* registered: <__RegisteredAttr><__Key>name</__Key><__Value>..</__Value>
       LET child == n + 1
           key == n + 2
           val == n + 3
           keyEl == [NewElement(Trim(TokenKey, {"<", ">"}), <<>>)
                       EXCEPT !.Children = <<ChildText(attr.name)>>]
           h1 == heap \o <<NewElement(VirtualAttrTag, <<>>), keyEl,
                           NewElement(Trim(TokenValue, {"<", ">"}), <<>>)>>
           h2 == IF attr.value = <<>> /\ hasEmpty
                 THEN AppendChild(
                        h1 \o <<NewElement(Trim(TokenEmpty, {"<", ">", " ", "/"}), <<>>)>>,
                        val, ChildElement(n + 4))
                 ELSE IF attr.value # <<>>
                 THEN AppendChild(h1, val, ChildText(attr.value))
                 ELSE h1
           h3 == AppendChild(AppendChild(h2, child, ChildElement(key)),
                             child, ChildElement(val))
       IN  [heap |-> AppendChild(h3, parent, ChildElement(child)), err |-> NoError]
  ELSE \* unregistered: <__UnregisteredAttr><__Key>name</__Key><__Value>val</__Value>
       LET missing == MissingOf(vocab, FallbackTokens) IN
       IF Len(missing) > 0
       THEN [heap |-> heap, err |-> Error("MissingFallbackTokens", <<attrName>> \o missing)]
       ELSE LET pair == n + 1
                keyEl == [NewElement(Trim(TokenKey, {"<", ">"}), <<>>)
                            EXCEPT !.Children = <<ChildText(attr.name)>>]
                valEl == [NewElement(Trim(TokenValue, {"<", ">"}), <<>>)
                            EXCEPT !.Children = <<ChildText(attr.value)>>]
                pairEl == [NewElement(Trim(TokenUnregisteredAttr, {"<", ">"}), <<>>)
                             EXCEPT !.Children = <<ChildElement(n + 2), ChildElement(n + 3)>>]
            IN  [heap |-> AppendChild(heap \o <<pairEl, keyEl, valEl>>, parent,
                                      ChildElement(pair)),
                 err |-> NoError]

\* Transformer.processAttributeToElement: [heap, err]
processAttributeToElement(vocab, heap, parent, attr) ==
  LET attrName == <<"@">> \o attr.name
      hasEmpty == TokenEmpty \in DOMAIN vocab
      n == Len(heap)
  IN
  IF attrName \in DOMAIN vocab
  THEN \* registered: <__RegisteredAttr><__Key>name</__Key><__Value>..</__Value>
       LET child == n + 1
           key == n + 2
           val == n + 3
           keyEl == [NewElement(Trim(TokenKey, {"<", ">"}), <<>>)
                       EXCEPT !.Children = <<ChildText(attr.name)>>]
           h1 == heap \o <<NewElement(VirtualAttrTag, <<>>), keyEl,
                           NewElement(Trim(TokenValue, {"<", ">"}), <<>>)>>
           h2 == IF attr.value = <<>> /\ hasEmpty
                 THEN AppendChild(
                        h1 \o <<NewElement(Trim(TokenEmpty, {"<", ">", " ", "/"}), <<>>)>>,
                        val, ChildElement(n + 4))
                 ELSE IF attr.value # <<>>
                 THEN AppendChild(h1, val, ChildText(attr.value))
                 ELSE h1
           h3 == AppendChild(AppendChild(h2, child, ChildElement(key)),
                             child, ChildElement(val))
       IN  [heap |-> AppendChild(h3, parent, ChildElement(child)), err |-> NoError]
  ELSE \* unregistered: <__UnregisteredAttr><__Key>name</__Key><__Value>val</__Value>
       LET missing == MissingOf(vocab, FallbackTokens) IN
       IF Len(missing) > 0
       THEN [heap |-> heap, err |-> Error("MissingFallbackTokens", <<attrName>> \o missing)]
       ELSE LET pair == n + 1
                keyEl == [NewElement(Trim(TokenKey, {"<", ">"}), <<>>)
                            EXCEPT !.Children = <<ChildText(attr.name)>>]
                valEl == [NewElement(Trim(TokenValue, {"<", ">"}), <<>>)
                            EXCEPT !.Children = <<ChildText(attr.value)>>]
                pairEl == [NewElement(Trim(TokenUnregisteredAttr, {"<", ">"}), <<>>)
                             EXCEPT !.Children = <<ChildElement(n + 2), ChildElement(n + 3)>>]
            IN  [heap |-> AppendChild(heap \o <<pairEl, keyEl, valEl>>, parent,
                                      ChildElement(pair)),
                 err |-> NoError]

\* the loop "for _, attr := range se.Attr" of Transform, from attribute i on
RECURSIVE processAttributes(_, _, _, _, _)
processAttributes(vocab, heap, el, attrs, i) ==
  IF i > Len(attrs) THEN [heap |-> heap, err |-> NoError]
  ELSE IF attrs[i].name = ArborOrderedAttribute
  THEN processAttributes(vocab, heap, el, attrs, i + 1)
  ELSE LET r == processAttributeToElement(vocab, heap, el, attrs[i]) IN
       IF r.err # NoError THEN r
       ELSE processAttributes(vocab, r.heap, el, attrs, i + 1)

\* a Transformer that keeps no attribute at all
OrderedAttrDropped(attrs) == <<>>

\* the arbor-ordered attribute of a start tag, as a list of at most one
OrderedAttrOf(attrs) ==
  IF \E i \in 1..Len(attrs) : attrs[i].name = ArborOrderedAttribute
  THEN <<attrs[CHOOSE i \in 1..Len(attrs) :
                  /\ attrs[i].name = ArborOrderedAttribute
                  /\ \A k \in 1..(i - 1) : attrs[k].name # ArborOrderedAttribute]>>
  ELSE <<>>

\* state of one Transform call
TransformInit == [heap |-> <<>>, stack |-> <<>>, root |-> 0, err |-> NoError]

\* Transform, case xml.StartElement
TransformStartElement(vocab, st, se) ==
  LET tagName == <<"<">> \o se.name \o <<">">> IN
  IF tagName \notin DOMAIN vocab
  THEN [st EXCEPT !.err = Error("UnknownTag", <<tagName>>)]
  ELSE LET attrs == SortAttrs(se.attr)
           el == Len(st.heap) + 1
           h1 == st.heap \o <<NewElement(se.name, OrderedAttrOf(attrs))>>
           h2 == IF Len(st.stack) > 0
                 THEN AppendChild(h1, st.stack[Len(st.stack)], ChildElement(el))
                 ELSE h1
           r == processAttributes(vocab, h2, el, attrs, 1)
       IN  [heap |-> r.heap,
            stack |-> Append(st.stack, el),
            root |-> IF Len(st.stack) > 0 THEN st.root ELSE el,
            err |-> r.err]

\* an EndElement case that does not look the close tag up
TransformEndElementUnchecked(vocab, st, se) ==
  IF Len(st.stack) = 0
  THEN [st EXCEPT !.err = Error("UnexpectedEndElement", <<se.name>>)]
  ELSE [st EXCEPT !.stack = SubSeq(st.stack, 1, Len(st.stack) - 1)]

\* Transform, case xml.EndElement
TransformEndElement(vocab, st, se) ==
  LET tagName == <<"<", "/">> \o se.name \o <<">">> IN
  IF tagName \notin DOMAIN vocab
  THEN [st EXCEPT !.err = Error("UnknownTag", <<tagName>>)]
  ELSE IF Len(st.stack) = 0
  THEN [st EXCEPT !.err = Error("UnexpectedEndElement", <<se.name>>)]
  ELSE [st EXCEPT !.stack = SubSeq(st.stack, 1, Len(st.stack) - 1)]

\* Transform, case xml.CharData
TransformCharData(st, se) ==
  LET trimmed == TrimSpace(se.data) IN
  IF trimmed # <<>> /\ Len(st.stack) > 0
  THEN [st EXCEPT !.heap = AppendChild(st.heap, st.stack[Len(st.stack)], ChildText(trimmed))]
  ELSE st

\* one iteration of Transform's loop on the token ev
TransformToken(vocab, st, ev) ==
  CASE ev.type = "error" -> [st EXCEPT !.err = TokenError(ev)]
    [] ev.type = "start" -> TransformStartElement(vocab, st, ev)
    [] ev.type = "end" -> TransformEndElement(vocab, st, ev)
    [] OTHER -> TransformCharData(st, ev)

RECURSIVE TransformLoop(_, _, _, _)
TransformLoop(vocab, st, events, i) ==
  IF st.err # NoError \/ i > Len(events) THEN st
  ELSE TransformLoop(vocab, TransformToken(vocab, st, events[i]), events, i + 1)

\* Transformer.Transform(r): [heap, root, err]; root is 0 (nil) on error
Transform(vocab, markup) ==
  LET st == TransformLoop(vocab, TransformInit, XmlTokens(markup), 1) IN
  IF st.err # NoError THEN [heap |-> <<>>, root |-> 0, err |-> st.err]
  ELSE [heap |-> st.heap, root |-> st.root, err |-> NoError]

-----------------------------------------------------------------------------
(* Path padding *)

RECURSIVE MaxLen(_)
MaxLen(paths) ==
  IF paths = <<>> THEN 0
  ELSE LET m == MaxLen(Tail(paths)) IN
       IF Len(Head(paths)) > m THEN Len(Head(paths)) ELSE m

\* make([]int, maxDepth) panics on a negative length, once there is a row to make
getPaddedPathsPanics(paths, maxDepth) == maxDepth < 0 /\ Len(paths) > 0

\* a padding that leaves every row as long as its path
getPaddedPathsRagged(paths, maxDepth, padValue) == paths

\* a padding that extends short rows but cuts none
getPaddedPathsUncut(paths, maxDepth, padValue) ==
  [i \in 1..Len(paths) |->
     paths[i] \o [j \in 1..(maxDepth - Len(paths[i])) |-> padValue]]

\* getPaddedPaths(paths, maxDepth, padValue)
getPaddedPaths(paths, maxDepth, padValue) ==
  LET width == IF maxDepth = 0 THEN MaxLen(paths) ELSE maxDepth IN
  [i \in 1..Len(paths) |->
     [j \in 1..width |-> IF j <= Len(paths[i]) THEN paths[i][j] ELSE padValue]]

-----------------------------------------------------------------------------
(* Encoder *)

StackItem(childrenCounter, ordered, pathIndex, isRegisteredAttr) ==
  [childrenCounter |-> childrenCounter, ordered |-> ordered,
   pathIndex |-> pathIndex, isRegisteredAttr |-> isRegisteredAttr]

\* a getCurrentPath that looks at the top of the stack only
getCurrentPathOfTop(stack) ==
  IF stack = <<>> THEN <<>> ELSE <<stack[Len(stack)].pathIndex>>

\* getCurrentPath: the pathIndex of every stack item, bottom first
getCurrentPath(stack) == [i \in 1..Len(stack) |-> stack[i].pathIndex]

\* extractRegisteredAttrName: reads <__Key>name</__Key><__Value> from events[i..]
\* and returns the name; dec.Token() at the end of input returns io.EOF, an error
extractRegisteredAttrName(events, i) ==
  LET tok(k) == IF i + k <= Len(events) THEN events[i + k] ELSE SyntaxError
      keyName == Trim(TokenKey, {"<", ">"})
      valName == Trim(TokenValue, {"<", ">"})
  IN
  IF tok(0).type = "error" THEN [name |-> <<>>, err |-> Error("MalformedMarkup", <<>>)]
  ELSE IF tok(0).type # "start" \/ tok(0).name # keyName
  THEN [name |-> <<>>, err |-> Error("ExpectedKey", <<TokenKey>>)]
  ELSE IF tok(1).type = "error" THEN [name |-> <<>>, err |-> Error("MalformedMarkup", <<>>)]
  ELSE IF tok(1).type # "chardata"
  THEN [name |-> <<>>, err |-> Error("ExpectedCharData", <<TokenKey>>)]
  ELSE IF tok(2).type = "error" THEN [name |-> <<>>, err |-> Error("MalformedMarkup", <<>>)]
  ELSE IF tok(2).type # "end" \/ tok(2).name # keyName
  THEN [name |-> <<>>, err |-> Error("ExpectedKeyEnd", <<TokenKeyEnd>>)]
  ELSE IF tok(3).type = "error" THEN [name |-> <<>>, err |-> Error("MalformedMarkup", <<>>)]
  ELSE IF tok(3).type # "start" \/ tok(3).name # valName
  THEN [name |-> <<>>, err |-> Error("ExpectedValue", <<TokenValue>>)]
  ELSE [name |-> tok(1).data, err |-> NoError]

\* an ordering check that asks only whether the attribute is there
ArborOrderedIfPresent(attrs) == OrderedAttrOf(attrs) # <<>>

\* whether a start tag carries arbor-ordered="true" (the first such attribute decides)
ArborOrdered(attrs) ==
  LET o == OrderedAttrOf(attrs) IN o # <<>> /\ o[1].value = <<"true">>

\* State of one Encode call.  events/pos: the decoder and how far it was read;
\* tokens, paths, stack: the locals of Encode.  The remaining fields record
\* history for the properties and are never read by the steps: origin[i] is
\* the event that emitted token i, opens[k] the token emitted when stack[k] was
\* pushed, kids[k] the indices handed out beneath stack[k], closed the
\* <<open token, close token>> pairs.
EncodeInit(markup) ==
  [events |-> XmlTokens(markup), pos |-> 1,
   tokens |-> <<>>, paths |-> <<>>, stack |-> <<>>, err |-> NoError,
   origin |-> <<>>, opens |-> <<>>, kids |-> <<>>, closed |-> <<>>]

Kid(kind, idx) == [kind |-> kind, idx |-> idx]

\* a path logic that never moves the parent's counter
AssignIndexNotCounting(stack, isAttr) ==
  IF Len(stack) > 0
  THEN [myIndex |-> IF isAttr THEN 0 ELSE stack[Len(stack)].childrenCounter,
        stack |-> stack]
  ELSE [myIndex |-> 0, stack |-> stack]

\* a path logic that gives an attribute wrapper the parent's counter too
AssignIndexOfAttr(stack, isAttr) ==
  IF Len(stack) > 0
  THEN LET parent == stack[Len(stack)] IN
       [myIndex |-> parent.childrenCounter,
        stack |-> IF parent.ordered /\ ~isAttr
                  THEN [stack EXCEPT ![Len(stack)].childrenCounter = @ + 1]
                  ELSE stack]
  ELSE [myIndex |-> 0, stack |-> stack]

\* a path logic that moves the parent's counter whether it is ordered or not
AssignIndexCounting(stack, isAttr) ==
  IF Len(stack) > 0
  THEN LET parent == stack[Len(stack)] IN
       IF isAttr THEN [myIndex |-> 0, stack |-> stack]
       ELSE [myIndex |-> parent.childrenCounter,
             stack |-> [stack EXCEPT ![Len(stack)].childrenCounter = @ + 1]]
  ELSE [myIndex |-> 0, stack |-> stack]

\* a path logic that numbers a root element 1
AssignIndexRootOne(stack, isAttr) ==
  IF Len(stack) > 0
  THEN LET parent == stack[Len(stack)] IN
       IF isAttr THEN [myIndex |-> 0, stack |-> stack]
       ELSE [myIndex |-> parent.childrenCounter,
             stack |-> IF parent.ordered
                       THEN [stack EXCEPT ![Len(stack)].childrenCounter = @ + 1]
                       ELSE stack]
  ELSE [myIndex |-> 1, stack |-> stack]

\* a path logic that counts a new node at the bottom of the stack as well
AssignIndexCountingAtRoot(stack, isAttr) ==
  IF Len(stack) > 0
  THEN LET parent == stack[Len(stack)] IN
       IF isAttr THEN [myIndex |-> 0, stack |-> stack]
       ELSE [myIndex |-> parent.childrenCounter,
             stack |-> IF parent.ordered
                       THEN [stack EXCEPT ![Len(stack)].childrenCounter = @ + 1,
                                          ![1].childrenCounter = @ + 1]
                       ELSE [stack EXCEPT ![1].childrenCounter = @ + 1]]
  ELSE [myIndex |-> 0, stack |-> stack]

\* the index a new node gets under the stack's top, and the stack afterwards
\* ("Path Logic" of the StartElement case)
AssignIndex(stack, isAttr) ==
  IF Len(stack) > 0
  THEN LET parent == stack[Len(stack)] IN
       IF isAttr THEN [myIndex |-> 0, stack |-> stack]
       ELSE [myIndex |-> parent.childrenCounter,
             stack |-> IF parent.ordered
                       THEN [stack EXCEPT ![Len(stack)].childrenCounter = @ + 1]
                       ELSE stack]
  ELSE [myIndex |-> 0, stack |-> stack]

\* a push that starts every node's children at index 1
ChildrenStartAtOne(isAttr, tagName) == 1

\* a push that starts every node's children at index 0
ChildrenStartAtZero(isAttr, tagName) == 0

\* first index for the children of a node ("Push Stack")
ChildrenStart(isAttr, tagName) ==
  IF isAttr \/ HasPrefix(tagName, <<"<", "__">>) THEN 0 ELSE 1

\* Encode, case xml.StartElement
EncodeStartElement(vocab, st, se) ==
  LET isReg == se.name = VirtualAttrTag
      x == IF isReg THEN extractRegisteredAttrName(st.events, st.pos + 1)
           ELSE [name |-> <<>>, err |-> NoError]
      plain == <<"<">> \o se.name \o <<">">>
      tagName == IF isReg THEN <<"@">> \o x.name
                 ELSE IF plain = <<"<", "__", "Empty", ">">> THEN TokenEmpty
                 ELSE plain
      isAttr == isReg \/ plain = TokenUnregisteredAttr
      isOrdered == \/ isReg
                   \/ plain = TokenUnregisteredAttr
                   \/ tagName = TokenValue
                   \/ (~isReg /\ ArborOrdered(se.attr))
  IN
  IF x.err # NoError THEN [st EXCEPT !.err = x.err]
  ELSE IF tagName \notin DOMAIN vocab
  THEN [st EXCEPT !.err = Error("UnknownTag", <<tagName>>)]
  ELSE LET a == AssignIndex(st.stack, isAttr)
           nodePath == Append(getCurrentPath(a.stack), a.myIndex)
           d == Len(st.stack)
       IN  [st EXCEPT
              !.pos = IF isReg THEN st.pos + 5 ELSE st.pos + 1,
              !.tokens = Append(@, vocab[tagName]),
              !.paths = Append(@, nodePath),
              !.stack = Append(a.stack,
                               StackItem(ChildrenStart(isAttr, tagName), isOrdered,
                                         a.myIndex, isReg)),
              !.origin = Append(@, st.pos),
              !.opens = Append(@, Len(st.tokens) + 1),
              !.kids = IF d = 0 THEN <<<<>>>>
                       ELSE Append([@ EXCEPT ![d] =
                                      Append(@, Kid(IF isAttr THEN "attr" ELSE "elem",
                                                    a.myIndex))],
                                   <<>>)]

\* a close path built from the popped item's counter instead of its own index
ClosePathFromCounter(stack, popped) ==
  Append(getCurrentPath(stack), popped.childrenCounter)

\* the path of a close token: "nodePath = parent path + popped.pathIndex"
ClosePath(stack, popped) == Append(getCurrentPath(stack), popped.pathIndex)

\* Encode, case xml.EndElement
EncodeEndElement(vocab, st, se) ==
  LET d == Len(st.stack) IN
  IF d = 0 THEN [st EXCEPT !.err = Error("UnexpectedEndToken", <<se.name>>)]
  ELSE IF se.name = Trim(TokenValue, {"<", ">"}) /\ st.stack[d].isRegisteredAttr
  THEN [st EXCEPT !.pos = st.pos + 1]
  ELSE LET popped == st.stack[d]
           stack == SubSeq(st.stack, 1, d - 1)
           tagName == IF se.name = VirtualAttrTag THEN TokenValueEnd
                      ELSE <<"<", "/">> \o se.name \o <<">">>
           emit == tagName \in DOMAIN vocab
           nodePath == ClosePath(stack, popped)
       IN  [st EXCEPT
              !.pos = st.pos + 1,
              !.stack = stack,
              !.tokens = IF emit THEN Append(@, vocab[tagName]) ELSE @,
              !.paths = IF emit THEN Append(@, nodePath) ELSE @,
              !.origin = IF emit THEN Append(@, st.pos) ELSE @,
              !.opens = SubSeq(@, 1, d - 1),
              !.kids = SubSeq(@, 1, d - 1),
              !.closed = IF emit THEN Append(@, <<st.opens[d], Len(st.tokens) + 1>>) ELSE @]

\* a CharData case that gives every token of a run the counter it found
EncodeContentUncounted(st, contentTokens, i) ==
  LET d == Len(st.stack)
      c == st.stack[d].childrenCounter
      n == Len(contentTokens)
  IN  [st EXCEPT
         !.tokens = @ \o contentTokens,
         !.paths = @ \o [m \in 1..n |-> Append(getCurrentPath(st.stack), c)],
         !.origin = @ \o [m \in 1..n |-> st.pos],
         !.kids = [@ EXCEPT ![d] = @ \o [m \in 1..n |-> Kid("text", c)]]]

\* the loop "for _, t := range contentTokens" of the CharData case
RECURSIVE EncodeContent(_, _, _)
EncodeContent(st, contentTokens, i) ==
  IF i > Len(contentTokens) THEN st
  ELSE LET d == Len(st.stack)
           c == st.stack[d].childrenCounter
       IN  EncodeContent(
             [st EXCEPT
                !.tokens = Append(@, contentTokens[i]),
                !.paths = Append(@, Append(getCurrentPath(st.stack), c)),
                !.stack = [@ EXCEPT ![d].childrenCounter = c + 1],
                !.origin = Append(@, st.pos),
                !.kids = [@ EXCEPT ![d] = Append(@, Kid("text", c))]],
             contentTokens, i + 1)

\* Encode, case xml.CharData
EncodeCharData(st, se) ==
  IF Len(se.data) = 0 \/ Len(st.stack) = 0 THEN [st EXCEPT !.pos = st.pos + 1]
  ELSE [EncodeContent(st, ContentEncode(se.data), 1) EXCEPT !.pos = st.pos + 1]

\* a loop that reads on after an error of the decoder
EncodeTokenPastErrors(vocab, st, ev) ==
  CASE ev.type = "error" -> [st EXCEPT !.pos = st.pos + 1]
    [] ev.type = "start" -> EncodeStartElement(vocab, st, ev)
    [] ev.type = "end" -> EncodeEndElement(vocab, st, ev)
    [] OTHER -> EncodeCharData(st, ev)

\* one iteration of Encode's loop on the token ev
EncodeToken(vocab, st, ev) ==
  CASE ev.type = "error" -> [st EXCEPT !.err = TokenError(ev)]
    [] ev.type = "start" -> EncodeStartElement(vocab, st, ev)
    [] ev.type = "end" -> EncodeEndElement(vocab, st, ev)
    [] OTHER -> EncodeCharData(st, ev)

\* what a call returns: a *TokenizationResult or an error, never both
Failure(err) == [ok |-> FALSE, Tokens |-> <<>>, PaddedPaths |-> <<>>, err |-> err]
NoResult == [ok |-> FALSE, Tokens |-> <<>>, PaddedPaths |-> <<>>, err |-> NoError]

\* the statements after Encode's loop
EncodeResult(st) ==
  [ok |-> TRUE, Tokens |-> st.tokens,
   PaddedPaths |-> getPaddedPaths(st.paths, 0, -1), err |-> NoError]

RECURSIVE EncodeLoop(_, _)
EncodeLoop(vocab, st) ==
  IF st.err # NoError \/ st.pos > Len(st.events) THEN st
  ELSE EncodeLoop(vocab, EncodeToken(vocab, st, st.events[st.pos]))

\* Encoder.Encode(r)
Encode(vocab, markup) ==
  LET st == EncodeLoop(vocab, EncodeInit(markup)) IN
  IF st.err # NoError THEN Failure(st.err) ELSE EncodeResult(st)

-----------------------------------------------------------------------------
(* Decoder *)

\* tokenStr: the vocabulary string of an id, else what the content tokenizer decodes
tokenStr(t, id) ==
  IF id \in DOMAIN t.vocabInv THEN t.vocabInv[id] ELSE ContentDecode(<<id>>)

\* the controls that neither open nor close an element
AttrControls ==
  {TokenAttrPair, TokenKey, TokenValue, TokenKeyEnd, TokenValueEnd, TokenAttrPairEnd}

\* the condition of the "Start Element" branch
IsStartToken(s) ==
  HasPrefix(s, <<"<">>) /\ ~HasPrefix(s, <<"<", "/">>) /\ s \notin AttrControls

\* the condition of the "End Element" branch
IsEndToken(s) ==
  HasPrefix(s, <<"<", "/">>) /\ s \notin {TokenAttrPairEnd, TokenKeyEnd, TokenValueEnd}

\* a "Skip special tokens" branch that lets the key-open token through
IsSkippedButKey(s) ==
  s \in {TokenValueEnd, TokenAttrPairEnd, TokenKeyEnd, TokenValue}

\* the condition of the "Skip special tokens" branch
IsSkipped(s) ==
  s \in {TokenValueEnd, TokenAttrPairEnd, TokenKey, TokenKeyEnd, TokenValue}

\* state of one DecodeXML call: tokens and i as in the code (i counts the tokens
\* consumed), the Elements built so far, the stack and the root
DecodeInit(tokens) ==
  [tokens |-> tokens, i |-> 0, heap |-> <<>>, stack |-> <<>>, root |-> 0, err |-> NoError]

\* DecodeXML, "Start Element"
DecodeStartElement(st, s) ==
  LET tagName == TrimSuffix(TrimPrefix(s, <<"<">>), <<">">>)
      el == Len(st.heap) + 1
      h1 == st.heap \o <<NewElement(tagName, <<>>)>>
  IN  [st EXCEPT
         !.heap = IF Len(st.stack) > 0
                  THEN AppendChild(h1, st.stack[Len(st.stack)], ChildElement(el))
                  ELSE h1,
         !.root = IF Len(st.stack) > 0 THEN st.root ELSE el,
         !.stack = Append(st.stack, el)]

\* an "End Element" branch that lets a close tag without an open element pass
DecodeEndElementLenient(st, s) ==
  IF Len(st.stack) = 0 THEN st
  ELSE [st EXCEPT !.stack = SubSeq(st.stack, 1, Len(st.stack) - 1)]

\* DecodeXML, "End Element"
DecodeEndElement(st, s) ==
  IF Len(st.stack) = 0 THEN [st EXCEPT !.err = Error("UnexpectedEndTag", <<s>>)]
  ELSE [st EXCEPT !.stack = SubSeq(st.stack, 1, Len(st.stack) - 1)]

\* the "Consume loop" of an unregistered attribute: [i, key, val]
RECURSIVE UnregisteredLoop(_, _, _, _, _, _)
UnregisteredLoop(t, tokens, i, state, key, val) ==
  IF i >= Len(tokens) THEN [i |-> i, key |-> key, val |-> val]
  ELSE LET subS == tokenStr(t, tokens[i + 1]) IN
       IF subS = TokenAttrPairEnd THEN [i |-> i + 1, key |-> key, val |-> val]
       ELSE IF subS = TokenKey THEN UnregisteredLoop(t, tokens, i + 1, 1, key, val)
       ELSE IF subS = TokenKeyEnd THEN UnregisteredLoop(t, tokens, i + 1, 0, key, val)
       ELSE IF subS = TokenValue THEN UnregisteredLoop(t, tokens, i + 1, 2, key, val)
       ELSE IF subS = TokenValueEnd THEN UnregisteredLoop(t, tokens, i + 1, 0, key, val)
       ELSE IF state = 1 THEN UnregisteredLoop(t, tokens, i + 1, state, key \o subS, val)
       ELSE IF state = 2 THEN UnregisteredLoop(t, tokens, i + 1, state, key, val \o subS)
       ELSE UnregisteredLoop(t, tokens, i + 1, state, key, val)

AddAttribute(heap, el, name, value) ==
  [heap EXCEPT ![el].Attributes = Append(@, Attr(name, value))]

\* an attribute sequence that is dropped when the stream ends inside it
DecodeUnregisteredAttrIfClosed(t, st) ==
  LET r == UnregisteredLoop(t, st.tokens, st.i, 0, <<>>, <<>>) IN
  IF r.i > 0 /\ tokenStr(t, st.tokens[r.i]) = TokenAttrPairEnd
  THEN [st EXCEPT !.i = r.i,
                  !.heap = AddAttribute(st.heap, st.stack[Len(st.stack)], r.key, r.val)]
  ELSE [st EXCEPT !.i = r.i]

\* DecodeXML, "Unregistered Attribute Sequence"
DecodeUnregisteredAttr(t, st) ==
  LET r == UnregisteredLoop(t, st.tokens, st.i, 0, <<>>, <<>>) IN
  [st EXCEPT !.i = r.i,
             !.heap = AddAttribute(st.heap, st.stack[Len(st.stack)], r.key, r.val)]

\* the greedy loop of a registered attribute: [i, val]
RECURSIVE RegisteredLoop(_, _, _, _)
RegisteredLoop(t, tokens, i, val) ==
  IF i >= Len(tokens) THEN [i |-> i, val |-> val]
  ELSE LET subS == tokenStr(t, tokens[i + 1]) IN
       IF subS = TokenValueEnd THEN [i |-> i + 1, val |-> val]
       ELSE IF /\ (HasPrefix(subS, <<"<">>) \/ HasPrefix(subS, <<"<", "/">>))
               /\ subS \notin AttrControls
       THEN [i |-> i, val |-> val]
       ELSE IF HasPrefix(subS, <<"@">>) THEN [i |-> i, val |-> val]
       ELSE RegisteredLoop(t, tokens, i + 1, val \o subS)

\* DecodeXML, "Registered Attribute"
DecodeRegisteredAttr(t, st, s) ==
  LET r == RegisteredLoop(t, st.tokens, st.i, <<>>) IN
  [st EXCEPT !.i = r.i,
             !.heap = AddAttribute(st.heap, st.stack[Len(st.stack)],
                                   SubSeq(s, 2, Len(s)), r.val)]

\* DecodeXML, "Content": merged into a text child that ends the children
DecodeContent(st, s) ==
  LET cur == st.stack[Len(st.stack)]
      ch == st.heap[cur].Children
      n == Len(ch)
  IN  IF n > 0 /\ ~ch[n].isEl
      THEN [st EXCEPT !.heap[cur].Children[n] = ChildText(ch[n].text \o s)]
      ELSE [st EXCEPT !.heap = AppendChild(st.heap, cur, ChildText(s))]

\* a main loop that rejects content met while no element is open
DecodeTokenStrict(t, st0) ==
  LET st == [st0 EXCEPT !.i = st0.i + 1]
      s == tokenStr(t, st0.tokens[st0.i + 1])
  IN  IF IsStartToken(s) THEN DecodeStartElement(st, s)
      ELSE IF IsEndToken(s) THEN DecodeEndElement(st, s)
      ELSE IF Len(st.stack) = 0 THEN [st EXCEPT !.err = Error("ContentOutsideRoot", <<s>>)]
      ELSE IF s = TokenAttrPair THEN DecodeUnregisteredAttr(t, st)
      ELSE IF HasPrefix(s, <<"@">>) THEN DecodeRegisteredAttr(t, st, s)
      ELSE IF IsSkipped(s) THEN st
      ELSE DecodeContent(st, s)

\* a main loop that reads an out-of-place control token without consuming it
DecodeTokenStuck(t, st0) ==
  LET st == [st0 EXCEPT !.i = st0.i + 1]
      s == tokenStr(t, st0.tokens[st0.i + 1])
  IN  IF IsStartToken(s) THEN DecodeStartElement(st, s)
      ELSE IF IsEndToken(s) THEN DecodeEndElement(st, s)
      ELSE IF Len(st.stack) = 0 THEN st
      ELSE IF s = TokenAttrPair THEN DecodeUnregisteredAttr(t, st)
      ELSE IF HasPrefix(s, <<"@">>) THEN DecodeRegisteredAttr(t, st, s)
      ELSE IF IsSkipped(s) THEN st0
      ELSE DecodeContent(st, s)

\* one iteration of DecodeXML's main loop; i was incremented past the token read
DecodeToken(t, st0) ==
  LET st == [st0 EXCEPT !.i = st0.i + 1]
      s == tokenStr(t, st0.tokens[st0.i + 1])
  IN  IF IsStartToken(s) THEN DecodeStartElement(st, s)
      ELSE IF IsEndToken(s) THEN DecodeEndElement(st, s)
      ELSE IF Len(st.stack) = 0 THEN st
      ELSE IF s = TokenAttrPair THEN DecodeUnregisteredAttr(t, st)
      ELSE IF HasPrefix(s, <<"@">>) THEN DecodeRegisteredAttr(t, st, s)
      ELSE IF IsSkipped(s) THEN st
      ELSE DecodeContent(st, s)

\* what DecodeXML returns: the tree (heap and root, root 0 being nil) or an error
DecodeFailure(err) == [ok |-> FALSE, heap |-> <<>>, root |-> 0, err |-> err]
NoTree == [ok |-> FALSE, heap |-> <<>>, root |-> 0, err |-> NoError]
DecodeResult(st) == [ok |-> TRUE, heap |-> st.heap, root |-> st.root, err |-> NoError]

RECURSIVE DecodeLoop(_, _)
DecodeLoop(t, st) ==
  IF st.err # NoError \/ st.i >= Len(st.tokens) THEN st
  ELSE DecodeLoop(t, DecodeToken(t, st))

\* Tokenizer.DecodeXML(tokens)
DecodeXML(t, tokens) ==
  LET st == DecodeLoop(t, DecodeInit(tokens)) IN
  IF st.err # NoError THEN DecodeFailure(st.err) ELSE DecodeResult(st)

-----------------------------------------------------------------------------
(* Tokenizer *)

\* the entries NewTokenizer's loop rejects
Offending(vocab) == {k \in DOMAIN vocab : vocab[k] < Cl100kBaseMaxID}

Range(f) == {f[x] : x \in DOMAIN f}

\* the tables "vocabInv[v] = k" can leave behind: Go ranges over a map in no
\* fixed order, so of several strings with one id any may be written last
Inverses(vocab) ==
  LET Keys(id) == {k \in DOMAIN vocab : vocab[k] = id}
      shared == {id \in Range(vocab) : Cardinality(Keys(id)) > 1}
  IN  {[id \in Range(vocab) |-> IF id \in shared THEN last[id]
                                ELSE CHOOSE k \in Keys(id) : TRUE] :
         last \in {f \in [shared -> UNION {Keys(id) : id \in shared}] :
                     \A id \in shared : f[id] \in Keys(id)}}

\* NewTokenizer, after the vocabulary file was read: the possible outcomes
NewTokenizer(vocab) ==
  IF Offending(vocab) # {}
  THEN {[ok |-> FALSE, vocab |-> <<>>, vocabInv |-> <<>>,
         err |-> [kind |-> "VocabConflict", what |-> <<k>>, id |-> vocab[k]]] :
          k \in Offending(vocab)}
  ELSE {[ok |-> TRUE, vocab |-> vocab, vocabInv |-> inv, err |-> NoError] :
          inv \in Inverses(vocab)}

NoTokenizer == [ok |-> FALSE, vocab |-> <<>>, vocabInv |-> <<>>, err |-> NoError]

\* rootElement.String() on the nil *Element that Transform returns for an input
\* without any element dereferences nil: the call panics instead of returning
Panicked == [ok |-> FALSE, Tokens |-> <<>>, PaddedPaths |-> <<>>,
             err |-> Error("panic", <<>>)]

\* Tokenizer.Tokenize(r)
Tokenize(t, markup) ==
  LET r == Transform(t.vocab, markup) IN
  IF r.err # NoError THEN Failure(r.err)
  ELSE IF r.root = 0 THEN Panicked
  ELSE Encode(t.vocab, String(r.heap, r.root))

-----------------------------------------------------------------------------
(* Inputs: documents *)

ElemNode(name, attrs, kids) ==
  [el |-> TRUE, name |-> name, attrs |-> attrs, kids |-> kids, text |-> <<>>]
TextNode(s) == [el |-> FALSE, name |-> <<>>, attrs |-> <<>>, kids |-> <<>>, text |-> s]
NoDoc == TextNode(<<>>)

Names == {<<"A">>, <<"B">>}
RegisteredName == <<"id">>
UnregisteredName == <<"foo">>

OrderedOrNot == {<<>>, <<Attr(ArborOrderedAttribute, <<"true">>)>>}
OrderedFalse == <<Attr(ArborOrderedAttribute, <<"false">>)>>
ValuedAttr == {<<Attr(RegisteredName, <<"v">>)>>, <<Attr(UnregisteredName, <<"v">>)>>}
EmptyAttr == {<<Attr(RegisteredName, <<>>)>>, <<Attr(UnregisteredName, <<>>)>>}
TwoAttrs ==
  {<<Attr(UnregisteredName, <<"v">>), Attr(RegisteredName, <<"v">>)>>,
   <<Attr(RegisteredName, <<"v">>), Attr(UnregisteredName, <<"v">>)>>}

\* an unregistered attribute whose value makes two content tokens
LongAttr == {<<Attr(UnregisteredName, <<"v", "t">>)>>}

\* two attributes of one local name, as in <A a:id="v" b:id="t">
SameName ==
  {<<Attr(RegisteredName, <<"v">>), Attr(RegisteredName, <<"t">>)>>,
   <<Attr(RegisteredName, <<"t">>), Attr(RegisteredName, <<"v">>)>>}

\* The attribute lists of a start tag, by size: arbor-ordered="true" is free,
\* an attribute with a value counts 1, one with the empty value 2, as do
\* arbor-ordered="false" and a pair of attributes.
AttrLists(c) ==
  CASE c = 0 -> OrderedOrNot
    [] c = 1 -> {o \o a : o \in OrderedOrNot, a \in ValuedAttr}
    [] c = 2 -> {OrderedFalse} \cup {o \o a : o \in OrderedOrNot, a \in EmptyAttr \cup TwoAttrs \cup LongAttr}
                  \cup SameName
    [] OTHER -> {}

\* n times the atom "t"
RECURSIVE Plain(_)
Plain(n) == IF n = 0 THEN <<>> ELSE <<"t">> \o Plain(n - 1)

\* Text runs of size n: "t" counts 1; a leading "@", "<" or blank counts 2.
Texts(n) ==
  {Plain(n)} \cup (IF n >= 2 THEN {<<a>> \o Plain(n - 2) : a \in {"@", "<", " "}} ELSE {})

\* elements of size exactly n; child lists of total size exactly n in which no
\* two text runs are adjacent (afterText: the list follows a text run)
RECURSIVE Elems(_)
RECURSIVE Kids(_, _)
Kids(n, afterText) ==
  IF n = 0 THEN {<<>>}
  ELSE UNION {
         {<<c>> \o rest : c \in Elems(k), rest \in Kids(n - k, FALSE)}
           \cup (IF afterText THEN {}
                 ELSE {<<TextNode(s)>> \o rest : s \in Texts(k), rest \in Kids(n - k, TRUE)})
         : k \in 1..n}

Elems(n) ==
  UNION {
    {ElemNode(name, a, kids) : name \in Names, a \in AttrLists(c), kids \in Kids(n - 1 - c, FALSE)}
    : c \in 0..(IF n - 1 < 2 THEN n - 1 ELSE 2)}

\* the markup of a document tree
RECURSIVE MarkupOf(_)
RECURSIVE MarkupOfKids(_)
MarkupOfKids(kids) ==
  IF kids = <<>> THEN <<>> ELSE MarkupOf(Head(kids)) \o MarkupOfKids(Tail(kids))

MarkupOf(node) ==
  IF node.el
  THEN <<"<">> \o node.name \o AttrsText(node.attrs) \o <<">">>
         \o MarkupOfKids(node.kids) \o <<"<", "/">> \o node.name \o <<">">>
  ELSE EscapeText(node.text)

DocInput(d) == [doc |-> d, markup |-> MarkupOf(d)]

\* documents of size at most n
DocsUpTo(n) == UNION {Elems(k) : k \in 1..n}

\* inputs that are no single well-formed element: the empty document, text
\* alone, an element left open, an element closed by another name, a close
\* tag alone, two elements side by side
OddInputs ==
  {[doc |-> NoDoc, markup |-> m] :
     m \in {<<>>, <<"t">>, <<"<", "A", ">">>,
            <<"<", "A", ">", "<", "/", "B", ">">>,
            <<"<", "/", "A", ">">>,
            <<"<", "A", ">", "<", "/", "A", ">", "<", "B", ">", "<", "/", "B", ">">>}}

\* elements with a comment in their text, before it, or between child elements
CommentedInputs ==
  {[doc |-> NoDoc, markup |-> m] :
     m \in {<<"<", "A", ">", "t", CommentMarkup, "t", "<", "/", "A", ">">>,
            <<"<", "A", ">", CommentMarkup, "t", "<", "/", "A", ">">>,
            <<"<", "A", ">", "<", "B", ">", "<", "/", "B", ">", CommentMarkup,
              "<", "B", ">", "<", "/", "B", ">", "<", "/", "A", ">">>}}

\* documents whose own elements carry the name of the registered-attribute
\* wrapper
WrapperInputs ==
  {[doc |-> NoDoc, markup |-> m] :
     m \in {TokenRegisteredAttr \o <<"<", "/">> \o VirtualAttrTag \o <<">">>,
            <<"<", "A", ">">> \o TokenRegisteredAttr
              \o <<"<", "/">> \o VirtualAttrTag \o <<">", "<", "/", "A", ">">>}}

-----------------------------------------------------------------------------
(* Inputs: vocabulary files *)

Open(name) == <<"<">> \o name \o <<">">>
Close(name) == <<"<", "/">> \o name \o <<">">>

\* the strings of a complete vocabulary file, in the order of their ids
VocabKeys ==
  <<Open(<<"A">>), Close(<<"A">>), Open(<<"B">>), Close(<<"B">>),
    <<"@">> \o RegisteredName,
    TokenUnregisteredAttr, TokenUnregisteredAttrEnd, TokenKey, TokenKeyEnd,
    TokenValue, TokenValueEnd, TokenEmpty>>

\* a complete vocabulary: ids count up from the first id above Cl100kBaseMaxID
FullVocab ==
  [k \in Range(VocabKeys) |->
     Cl100kBaseMaxID + (CHOOSE i \in 1..Len(VocabKeys) : VocabKeys[i] = k)]

Without(vocab, keys) == [k \in DOMAIN vocab \ keys |-> vocab[k]]
WithId(vocab, key, id) == [vocab EXCEPT ![key] = id]

\* vocabularies that lack entries
DeficientVocabs ==
  {Without(FullVocab, {TokenEmpty}),
   Without(FullVocab, {TokenValueEnd}),
   Without(FullVocab, {TokenKey}),
   Without(FullVocab, {TokenKey, TokenValueEnd}),
   Without(FullVocab, {Open(<<"B">>), Close(<<"B">>)}),
   Without(FullVocab, {Close(<<"B">>)}),
   Without(FullVocab, {Open(<<"B">>), Close(<<"B">>), TokenKey})}

\* vocabularies with an id at, or next to, the bound, and one with an id twice
BoundaryVocabs ==
  {WithId(FullVocab, Open(<<"B">>), Cl100kBaseMaxID + d) : d \in {-1, 0}}
    \cup {WithId(FullVocab, Close(<<"B">>), FullVocab[Open(<<"B">>)])}

\* a complete vocabulary that also lists the wrapper of registered attributes
WrapperVocab ==
  [k \in DOMAIN FullVocab \cup {TokenRegisteredAttr, Close(VirtualAttrTag)} |->
     IF k \in DOMAIN FullVocab THEN FullVocab[k]
     ELSE IF k = TokenRegisteredAttr THEN Cl100kBaseMaxID + Len(VocabKeys) + 1
     ELSE Cl100kBaseMaxID + Len(VocabKeys) + 2]

\* the runs: a vocabulary file and the document handed to Tokenize
Runs ==
  ({FullVocab} \X (DocsUpTo(MaxSize) \cup {NoDoc}))
    \cup (DeficientVocabs \X DocsUpTo(MaxSize - 1))
    \cup (BoundaryVocabs \X DocsUpTo(MaxSize - 2))
    \cup ({WrapperVocab} \X {NoDoc})

Init ==
  /\ pc = "start"
  /\ \E run \in Runs :
       /\ vocabFile = run[1]
       /\ doc = run[2]
       /\ IF run[2] = NoDoc
          THEN \E odd \in OddInputs \cup CommentedInputs \cup WrapperInputs :
                 input = odd.markup
          ELSE input = MarkupOf(run[2])
  /\ tk = NoTokenizer
  /\ enc = EncodeInit(<<>>)
  /\ dec = DecodeInit(<<>>)
  /\ result = NoResult
  /\ tree = NoTree
  /\ calls = <<>>

-----------------------------------------------------------------------------
(* Actions *)

\* NewTokenizer(vocabPath) returns a *Tokenizer or an error
CallNewTokenizer ==
  /\ pc = "start"
  /\ \E t \in NewTokenizer(vocabFile) :
       /\ tk' = t
       /\ pc' = IF t.ok THEN "ready" ELSE "rejected"
  /\ UNCHANGED <<calls, vocabFile, doc, input, enc, dec, result, tree>>

\* Tokenize, up to the call of Encode: Transform and rootElement.String()
CallTokenize ==
  /\ pc = "ready"
  /\ LET r == Transform(tk.vocab, input) IN
     IF r.err # NoError
     THEN /\ result' = Failure(r.err)
          /\ pc' = "failed"
          /\ enc' = enc
     ELSE IF r.root = 0
     THEN /\ result' = Panicked
          /\ pc' = "panicked"
          /\ enc' = enc
     ELSE /\ enc' = EncodeInit(String(r.heap, r.root))
          /\ pc' = "encode"
          /\ result' = result
  /\ UNCHANGED <<calls, vocabFile, doc, input, tk, dec, tree>>

\* the token Encode's loop reads next
NextEvent(kind) ==
  /\ pc = "encode"
  /\ enc.err = NoError
  /\ enc.pos <= Len(enc.events)
  /\ enc.events[enc.pos].type = kind

EncodeStart ==
  /\ NextEvent("start")
  /\ enc' = EncodeStartElement(tk.vocab, enc, enc.events[enc.pos])
  /\ UNCHANGED <<calls, pc, vocabFile, doc, input, tk, dec, result, tree>>

EncodeEnd ==
  /\ NextEvent("end")
  /\ enc' = EncodeEndElement(tk.vocab, enc, enc.events[enc.pos])
  /\ UNCHANGED <<calls, pc, vocabFile, doc, input, tk, dec, result, tree>>

EncodeChars ==
  /\ NextEvent("chardata")
  /\ enc' = EncodeCharData(enc, enc.events[enc.pos])
  /\ UNCHANGED <<calls, pc, vocabFile, doc, input, tk, dec, result, tree>>

\* Encode returns: at io.EOF the result, else the error
EncodeReturn ==
  /\ pc = "encode"
  /\ IF enc.err = NoError /\ enc.pos <= Len(enc.events)
     THEN enc.events[enc.pos].type = "error"
     ELSE TRUE
  /\ LET st == IF enc.err = NoError /\ enc.pos <= Len(enc.events)
               THEN EncodeToken(tk.vocab, enc, enc.events[enc.pos])
               ELSE enc
     IN  IF st.err # NoError
         THEN result' = Failure(st.err) /\ pc' = "failed"
         ELSE result' = EncodeResult(st) /\ pc' = "tokenized"
  /\ UNCHANGED <<calls, vocabFile, doc, input, tk, enc, dec, tree>>

\* DecodeXML is called on the tokens Tokenize returned
CallDecodeXML ==
  /\ pc = "tokenized"
  /\ dec' = DecodeInit(result.Tokens)
  /\ pc' = "decode"
  /\ UNCHANGED <<calls, vocabFile, doc, input, tk, enc, result, tree>>

\* one iteration of DecodeXML's loop
DecodeStep ==
  /\ pc = "decode"
  /\ dec.err = NoError
  /\ dec.i < Len(dec.tokens)
  /\ dec' = DecodeToken(tk, dec)
  /\ UNCHANGED <<calls, pc, vocabFile, doc, input, tk, enc, result, tree>>

\* DecodeXML returns the root or an error
DecodeReturn ==
  /\ pc = "decode"
  /\ dec.err # NoError \/ dec.i >= Len(dec.tokens)
  /\ IF dec.err # NoError
     THEN tree' = DecodeFailure(dec.err) /\ pc' = "undecoded"
     ELSE tree' = DecodeResult(dec) /\ pc' = "decoded"
  /\ UNCHANGED <<calls, vocabFile, doc, input, tk, enc, dec, result>>

Next ==
  \/ CallNewTokenizer
  \/ CallTokenize
  \/ EncodeStart
  \/ EncodeEnd
  \/ EncodeChars
  \/ EncodeReturn
  \/ CallDecodeXML
  \/ DecodeStep
  \/ DecodeReturn

Spec == Init /\ [][Next]_vars

-----------------------------------------------------------------------------
(* Nesting, read off the token stream of the encoder's input *)

\* the names of the elements open just before event e, outermost first
RECURSIVE OpenBefore(_, _)
OpenBefore(events, e) ==
  IF e <= 1 THEN <<>>
  ELSE LET open == OpenBefore(events, e - 1)
           ev == events[e - 1]
       IN  CASE ev.type = "start" -> Append(open, ev.name)
             [] ev.type = "end" -> SubSeq(open, 1, Len(open) - 1)
             [] OTHER -> open

\* an element of the document, not one the Transformer made of an attribute
IsDocName(name) == ~HasPrefix(name, <<"__">>)

\* Encode has read all of its input
EncodeDone == pc = "encode" /\ enc.err = NoError /\ enc.pos > Len(enc.events)

\* the elements of a document tree
RECURSIVE DocElements(_)
DocElements(node) ==
  IF ~node.el THEN {}
  ELSE {node} \cup UNION {DocElements(node.kids[i]) : i \in 1..Len(node.kids)}

\* the open and close tag strings of the document that the vocabulary lacks
AbsentTags(vocab, d) ==
  {tag \in UNION {{Open(e.name), Close(e.name)} : e \in DocElements(d)} :
     tag \notin DOMAIN vocab}

\* an attribute of the document that has no vocabulary entry of its own
HasUnregisteredAttr(vocab, d) ==
  \E e \in DocElements(d) : \E i \in 1..Len(e.attrs) :
    /\ e.attrs[i].name # ArborOrderedAttribute
    /\ (<<"@">> \o e.attrs[i].name) \notin DOMAIN vocab

-----------------------------------------------------------------------------
(* The reference parse of the round-trip test, and its comparison of trees *)

\* parseXMLToElement, case xml.StartElement
ParseStartElement(st, se) ==
  LET el == Len(st.heap) + 1
      attrs == SelectSeq(se.attr, LAMBDA a : a.name # ArborOrderedAttribute)
      h1 == st.heap \o <<NewElement(se.name, attrs)>>
  IN  [heap |-> IF Len(st.stack) > 0
                THEN AppendChild(h1, st.stack[Len(st.stack)], ChildElement(el))
                ELSE h1,
       stack |-> Append(st.stack, el),
       root |-> IF Len(st.stack) > 0 THEN st.root ELSE el,
       err |-> NoError]

\* one iteration of parseXMLToElement's loop on the token ev
ParseToken(st, ev) ==
  CASE ev.type = "error" -> [st EXCEPT !.err = TokenError(ev)]
    [] ev.type = "start" -> ParseStartElement(st, ev)
    [] ev.type = "end" ->
         IF Len(st.stack) > 0
         THEN [st EXCEPT !.stack = SubSeq(st.stack, 1, Len(st.stack) - 1)]
         ELSE st
    [] OTHER -> TransformCharData(st, ev)

RECURSIVE ParseLoop(_, _, _)
ParseLoop(st, events, i) ==
  IF st.err # NoError \/ i > Len(events) THEN st
  ELSE ParseLoop(ParseToken(st, events[i]), events, i + 1)

\* parseXMLToElement(data): the expected tree of the round trip
parseXMLToElement(markup) ==
  LET st == ParseLoop(TransformInit, XmlTokens(markup), 1) IN
  IF st.err # NoError THEN [heap |-> <<>>, root |-> 0, err |-> st.err]
  ELSE [heap |-> st.heap, root |-> st.root, err |-> NoError]

\* the map from attribute names to values that elementsMatch builds
AttrMap(attrs) ==
  [name \in {attrs[i].name : i \in 1..Len(attrs)} |->
     attrs[CHOOSE i \in 1..Len(attrs) :
             /\ attrs[i].name = name
             /\ \A j \in (i + 1)..Len(attrs) : attrs[j].name # name].value]

\* elementsMatch reports no mismatch between expected and actual
RECURSIVE elementsMatch(_, _, _, _)
elementsMatch(eh, expected, ah, actual) ==
  LET e == eh[expected]
      a == ah[actual]
  IN  /\ e.Name = a.Name
      /\ Len(e.Attributes) = Len(a.Attributes)
      /\ AttrMap(e.Attributes) = AttrMap(a.Attributes)
      /\ Len(e.Children) = Len(a.Children)
      /\ \A i \in 1..Len(e.Children) :
           IF e.Children[i].isEl
           THEN /\ a.Children[i].isEl
                /\ elementsMatch(eh, e.Children[i].ref, ah, a.Children[i].ref)
           ELSE /\ ~a.Children[i].isEl
                /\ TrimSpace(e.Children[i].text) = TrimSpace(a.Children[i].text)

-----------------------------------------------------------------------------
(* Permuting the children of an element; the (token, path) pairs of a result *)

\* the element carries arbor-ordered="true"
MarkedOrdered(node) ==
  \E i \in 1..Len(node.attrs) :
    node.attrs[i] = Attr(ArborOrderedAttribute, <<"true">>)

Orders(n) ==
  {f \in [1..n -> 1..n] : \A i, j \in 1..n : f[i] = f[j] => i = j}

\* the text runs among the first i children
TextsBefore(kids, i) == Cardinality({m \in 1..(i - 1) : ~kids[m].el})

\* the ways of reordering the children of node that a mode admits:
\*  "unordered"  any order, of a node not marked ordered
\*  "between"    of such a node: text runs stay, no element crosses a text run
\*  "ordered"    any other order, of a node marked ordered
\*  "renaming"   of a node marked ordered whose children are all elements: an
\*               order that puts an element of another name at some place
Reorderings(node, mode) ==
  LET n == Len(node.kids)
      reordered(f) == [i \in 1..n |-> node.kids[f[i]]]
  IN  CASE mode = "unordered" ->
             IF MarkedOrdered(node) THEN {}
             ELSE {reordered(f) : f \in Orders(n)}
        [] mode = "between" ->
             IF MarkedOrdered(node) THEN {}
             ELSE {reordered(f) : f \in
                     {g \in Orders(n) : \A i \in 1..n :
                        IF node.kids[i].el
                        THEN /\ node.kids[g[i]].el
                             /\ TextsBefore(node.kids, g[i]) = TextsBefore(node.kids, i)
                        ELSE g[i] = i}}
        [] mode = "ordered" ->
             IF ~MarkedOrdered(node) \/ n < 2 THEN {}
             ELSE {reordered(f) : f \in {g \in Orders(n) : \E i \in 1..n : g[i] # i}}
        [] OTHER ->
             IF ~MarkedOrdered(node) \/ \E i \in 1..n : ~node.kids[i].el THEN {}
             ELSE {reordered(f) : f \in
                     {g \in Orders(n) : \E i \in 1..n :
                        node.kids[g[i]].name # node.kids[i].name}}

\* the documents got from node by reordering the children of one element of it
RECURSIVE Variants(_, _)
Variants(node, mode) ==
  IF ~node.el THEN {}
  ELSE {[node EXCEPT !.kids = ks] : ks \in Reorderings(node, mode)}
         \cup UNION {{[node EXCEPT !.kids[i] = v] : v \in Variants(node.kids[i], mode)}
                     : i \in 1..Len(node.kids)}

\* the multiset of (token, path) pairs of a result
Signature(res) ==
  LET at(i) == <<res.Tokens[i], res.PaddedPaths[i]>>
      n == Len(res.Tokens)
  IN  [pair \in {at(i) : i \in 1..n} |-> Cardinality({i \in 1..n : at(i) = pair})]

\* Tokenize returned a result for a document
Tokenized == pc = "tokenized" /\ doc # NoDoc

-----------------------------------------------------------------------------
(* Claims *)

\* C5: the path emitted with an element's close token is the path emitted with
\* its matching open token, whatever was emitted in between.
OpenClosePathSymmetry ==
  \A k \in 1..Len(enc.closed) :
    enc.paths[enc.closed[k][1]] = enc.paths[enc.closed[k][2]]

\* C5 witness: an element two levels down was closed after its counter moved
\* (content tokens were emitted between its open and its close token).
OpenClosePathSymmetryWitness ==
  /\ EncodeDone
  /\ \E k \in 1..Len(enc.closed) :
       LET o == enc.closed[k][1]
           c == enc.closed[k][2]
       IN  /\ Len(enc.paths[o]) >= 3
           /\ c > o + 1
           /\ \E m \in (o + 1)..(c - 1) :
                /\ enc.events[enc.origin[m]].type = "chardata"
                /\ Len(enc.paths[m]) = Len(enc.paths[o]) + 1

\* C6: the open and close tokens of a document element at depth d (root 0) have
\* a path of length d+1, and each content token directly inside it one of
\* length d+2.
PathLengthIsDepthPlusOne ==
  \A k \in 1..Len(enc.tokens) :
    LET e == enc.origin[k]
        ev == enc.events[e]
        open == OpenBefore(enc.events, e)
    IN  /\ (ev.type = "start" /\ IsDocName(ev.name))
             => Len(enc.paths[k]) = Len(open) + 1
        /\ (ev.type = "end" /\ IsDocName(ev.name))
             => Len(enc.paths[k]) = (Len(open) - 1) + 1
        /\ (ev.type = "chardata" /\ open # <<>> /\ IsDocName(open[Len(open)]))
             => Len(enc.paths[k]) = (Len(open) - 1) + 2

\* C6 witness: a finished encoding with a root token, an element at depth 2 and
\* content directly inside an element at depth 1.
PathLengthIsDepthPlusOneWitness ==
  /\ EncodeDone
  /\ Len(enc.paths[1]) = 1
  /\ \E k \in 1..Len(enc.tokens) :
       /\ enc.events[enc.origin[k]].type = "start"
       /\ IsDocName(enc.events[enc.origin[k]].name)
       /\ Len(OpenBefore(enc.events, enc.origin[k])) = 2
  /\ \E k \in 1..Len(enc.tokens) :
       LET open == OpenBefore(enc.events, enc.origin[k]) IN
       /\ enc.events[enc.origin[k]].type = "chardata"
       /\ Len(open) = 2
       /\ IsDocName(open[2])

\* C7: a token whose id has no reverse-lookup entry is never treated as
\* structural: inside an element, DecodeXML appends what the content tokenizer
\* decodes it to as text (merging with a preceding text child), whatever that
\* string begins with.
ContentIdsDecodeAsText ==
  [][(/\ pc = "decode"
      /\ dec.err = NoError
      /\ dec.i < Len(dec.tokens)
      /\ dec.tokens[dec.i + 1] \notin DOMAIN tk.vocabInv
      /\ dec.stack # <<>>)
       => dec' = DecodeContent([dec EXCEPT !.i = dec.i + 1],
                               ContentDecode(<<dec.tokens[dec.i + 1]>>))]_vars

\* C8: NewTokenizer succeeds only if every id of the vocabulary is strictly
\* greater than Cl100kBaseMaxID; with an id at or below it, it returns no
\* Tokenizer but an error naming the offending tag and its id.
VocabIdsAboveContentIds ==
  pc # "start" =>
    /\ tk.ok => \A k \in DOMAIN vocabFile : vocabFile[k] > Cl100kBaseMaxID
    /\ (\E k \in DOMAIN vocabFile : vocabFile[k] <= Cl100kBaseMaxID) =>
         /\ ~tk.ok
         /\ tk.err.kind = "VocabConflict"
         /\ \E k \in DOMAIN vocabFile :
              /\ vocabFile[k] <= Cl100kBaseMaxID
              /\ tk.err.what = <<k>>
              /\ tk.err.id = vocabFile[k]

\* Tokenize has ended
TokenizeEnded == pc \in {"failed", "panicked", "tokenized", "decode", "decoded", "undecoded"}

\* C10: Tokenize ends by returning a complete result and no error, or an error
\* and no result, for every input; it ends in no other way.
TokenizeAllOrNothing ==
  TokenizeEnded =>
    \/ /\ result.ok
       /\ result.err = NoError
       /\ Len(result.Tokens) = Len(result.PaddedPaths)
    \/ /\ ~result.ok
       /\ result.err # NoError
       /\ result.err.kind # "panic"
       /\ result.Tokens = <<>>
       /\ result.PaddedPaths = <<>>

\* C9 as stated: whenever an open or close tag string of the document is absent
\* from the vocabulary, Tokenize fails with an error naming such a tag.
UnknownTagIsNamed ==
  (TokenizeEnded /\ doc # NoDoc /\ AbsentTags(tk.vocab, doc) # {}) =>
    /\ ~result.ok
    /\ result.err.kind = "UnknownTag"
    /\ \E tag \in AbsentTags(tk.vocab, doc) : result.err.what = <<tag>>

\* C9 amended: Tokenize fails whenever an open or close tag string of the
\* document is absent from the vocabulary; the error names such a tag, unless
\* the document has an unregistered attribute and the vocabulary lacks a
\* fallback token, when the error may be that attribute's instead.
UnknownTagFails ==
  (TokenizeEnded /\ doc # NoDoc /\ AbsentTags(tk.vocab, doc) # {}) =>
    /\ ~result.ok
    /\ \/ /\ result.err.kind = "UnknownTag"
          /\ \E tag \in AbsentTags(tk.vocab, doc) : result.err.what = <<tag>>
       \/ /\ result.err.kind = "MissingFallbackTokens"
          /\ HasUnregisteredAttr(tk.vocab, doc)
          /\ MissingOf(tk.vocab, FallbackTokens) # <<>>

\* C9 witness: Tokenize failed on a document whose only absent tag string is the
\* close tag of an element below the root.
UnknownTagFailsWitness ==
  /\ pc = "failed"
  /\ doc # NoDoc
  /\ AbsentTags(tk.vocab, doc) = {Close(<<"B">>)}
  /\ doc.name = <<"A">>
  /\ result.err = Error("UnknownTag", <<Close(<<"B">>)>>)

\* the children recorded so far at stack level d that are no attribute wrappers
OrdinaryKids(d) == SelectSeq(enc.kids[d], LAMBDA kid : kid.kind # "attr")

\* C3 as stated: the child elements of an unordered element all receive the
\* same last path index; successive children of an ordered element receive
\* strictly increasing ones.
SiblingIndexing ==
  \A d \in 1..Len(enc.stack) :
    LET ks == OrdinaryKids(d) IN
    IsDocName(OpenBefore(enc.events, enc.pos)[d]) =>
      IF enc.stack[d].ordered
      THEN \A i, j \in 1..Len(ks) : i < j => ks[i].idx < ks[j].idx
      ELSE \A i, j \in 1..Len(ks) :
             (ks[i].kind = "elem" /\ ks[j].kind = "elem") => ks[i].idx = ks[j].idx

\* C3 amended: the child elements of an unordered node receive the same last
\* path index unless text tokens were emitted between them (every text token
\* takes the next index, ordered parent or not); successive children of an
\* ordered node, elements and text tokens, receive strictly increasing ones;
\* attribute wrappers always receive index 0.
SiblingIndexingButText ==
  \A d \in 1..Len(enc.stack) :
    LET ks == OrdinaryKids(d) IN
    /\ \A i \in 1..Len(enc.kids[d]) :
         enc.kids[d][i].kind = "attr" => enc.kids[d][i].idx = 0
    /\ IF enc.stack[d].ordered
       THEN \A i, j \in 1..Len(ks) : i < j => ks[i].idx < ks[j].idx
       ELSE \A i, j \in 1..Len(ks) :
              (/\ i < j
               /\ ks[i].kind = "elem"
               /\ \A m \in (i + 1)..j : ks[m].kind = "elem")
                => ks[i].idx = ks[j].idx

\* C3 witness: an unordered element has two child elements with one index and
\* a text token after them.
SiblingIndexingButTextWitness ==
  /\ pc = "encode"
  /\ \E d \in 1..Len(enc.stack) :
       LET ks == OrdinaryKids(d) IN
       /\ ~enc.stack[d].ordered
       /\ Len(ks) >= 3
       /\ ks[1].kind = "elem" /\ ks[2].kind = "elem" /\ ks[3].kind = "text"
       /\ ks[1].idx = ks[2].idx

\* C1 as stated: reordering the direct children of an element not marked ordered,
\* child elements and text runs alike, leaves the multiset of (token, path)
\* pairs of Tokenize unchanged.
OrderInvariance ==
  Tokenized =>
    \A v \in Variants(doc, "unordered") :
      Signature(Tokenize(tk, MarkupOf(v))) = Signature(result)

\* C1 amended: reordering the direct child elements of an element not marked
\* ordered, at any depth, without moving a text run or taking an element across
\* one, leaves the multiset of (token, path) pairs of Tokenize unchanged.
OrderInvarianceBetweenText ==
  Tokenized =>
    \A v \in Variants(doc, "between") :
      Signature(Tokenize(tk, MarkupOf(v))) = Signature(result)

\* C1 witness: Tokenize returned for a document in which an element below the
\* root has two children that can change places, and the tokens come in another
\* order when they do.
OrderInvarianceBetweenTextWitness ==
  /\ Tokenized
  /\ \E i \in 1..Len(doc.kids) :
       \E v \in Variants(doc.kids[i], "between") :
         Tokenize(tk, MarkupOf([doc EXCEPT !.kids[i] = v])).Tokens # result.Tokens

\* no two strings of the vocabulary share an id
DistinctIds == Cardinality(Range(tk.vocab)) = Cardinality(DOMAIN tk.vocab)

RoundTrip ==
  (pc \in {"decoded", "undecoded"} /\ doc # NoDoc /\ DistinctIds) =>
    LET ref == parseXMLToElement(input) IN
    /\ tree.ok
    /\ tree.root # 0
    /\ elementsMatch(ref.heap, ref.root, tree.heap, tree.root)

-----------------------------------------------------------------------------
(* Attribute slot *)

\* the text tokens recorded so far at stack level d
TextKids(d) == SelectSeq(enc.kids[d], LAMBDA kid : kid.kind = "text")

-----------------------------------------------------------------------------
(* Registered attributes in the token stream *)

\* token k of the encoder is the value-end delimiter
IsValueEnd(k) ==
  TokenValueEnd \in DOMAIN tk.vocab /\ enc.tokens[k] = tk.vocab[TokenValueEnd]

\* token i of the encoder is the key of a registered attribute
IsAttrKey(i) ==
  \E key \in DOMAIN tk.vocab : HasPrefix(key, <<"@">>) /\ enc.tokens[i] = tk.vocab[key]

\* the key token i is followed by the tokens of its value, indexed 0, 1, 2, ...
\* beneath the key, and then by exactly one value-end delimiter on the key's path
ValueDelimited(i) ==
  \E j \in (i + 1)..Len(enc.tokens) :
    /\ IsValueEnd(j)
    /\ enc.paths[j] = enc.paths[i]
    /\ \A k \in (i + 1)..(j - 1) :
         ~IsValueEnd(k) /\ enc.paths[k] = Append(enc.paths[i], k - i - 1)
    /\ j < Len(enc.tokens) => ~(IsValueEnd(j + 1) /\ enc.paths[j + 1] = enc.paths[i])

\* at every level of the stack the attribute wrappers precede the other children
AttributesFirst ==
  \A d \in 1..Len(enc.stack) :
    \A i, j \in 1..Len(enc.kids[d]) :
      (enc.kids[d][i].kind # "attr" /\ enc.kids[d][j].kind = "attr") => j < i

\* C12: for every registered attribute of an element Encode emits the "@name"
\* token, then the value's tokens indexed 0, 1, 2, ... beneath the key, then
\* exactly one value-end delimiter carrying the path of the "@name" token, all
\* before any token of the element's ordinary children.
RegisteredAttrEncoding ==
  /\ pc = "encode" => AttributesFirst
  /\ EncodeDone => \A i \in 1..Len(enc.tokens) : IsAttrKey(i) => ValueDelimited(i)

-----------------------------------------------------------------------------
(* DecodeXML on token streams of any shape *)

\* longest free part of a token stream
MaxTokens == 4

\* the vocabulary entries the streams are made of
StreamKeys ==
  {Open(<<"A">>), Close(<<"A">>), <<"@">> \o RegisteredName, TokenAttrPair,
   TokenAttrPairEnd, TokenKey, TokenKeyEnd, TokenValue, TokenValueEnd, TokenEmpty}

\* the ids of a stream: vocabulary ids and the content ids of "t" and "@"
StreamIds ==
  {FullVocab[k] : k \in StreamKeys} \cup {ContentId("t"), ContentId("@")}

\* the sequences over S of length n at most
SeqsUpTo(S, n) == UNION {[1..k -> S] : k \in 0..n}

\* the sequence s without its element p
Remove(s, p) == SubSeq(s, 1, p - 1) \o SubSeq(s, p + 1, Len(s))

\* the tokens of <A foo="v"></A>
BucketStream ==
  <<FullVocab[Open(<<"A">>)], FullVocab[TokenAttrPair], FullVocab[TokenKey],
    ContentId("foo"), FullVocab[TokenKeyEnd], FullVocab[TokenValue],
    ContentId("v"), FullVocab[TokenValueEnd], FullVocab[TokenAttrPairEnd],
    FullVocab[Close(<<"A">>)]>>

\* s cut short, with one token lost, or with one token replaced
Garbled(s) ==
  {SubSeq(s, 1, n) : n \in 0..Len(s)}
    \cup {Remove(s, p) : p \in 1..Len(s)}
    \cup {[s EXCEPT ![p] = id] : p \in 1..Len(s), id \in StreamIds}

\* the streams DecodeXML is called on: an open tag followed by any tokens, any
\* short stream, and the damaged forms of a complete unregistered attribute
Streams ==
  {<<FullVocab[Open(<<"A">>)]>> \o s : s \in SeqsUpTo(StreamIds, MaxTokens)}
    \cup SeqsUpTo(StreamIds, 2)
    \cup Garbled(BucketStream)

\* DecodeXML(tokens) has been called on a Tokenizer of the complete vocabulary
\* and is about to enter its loop
StreamInit ==
  /\ pc = "decode"
  /\ vocabFile = FullVocab
  /\ doc = NoDoc
  /\ input = <<>>
  /\ tk \in {t \in NewTokenizer(FullVocab) : t.ok}
  /\ enc = EncodeInit(<<>>)
  /\ \E tokens \in Streams : dec = DecodeInit(tokens)
  /\ result = NoResult
  /\ tree = NoTree
  /\ calls = <<>>

StreamNext ==
  \/ DecodeStep
  \/ DecodeReturn

DecodeSpec == StreamInit /\ [][StreamNext]_vars

-----------------------------------------------------------------------------
(* Attributes read back by DecodeXML *)

\* DecodeXML's loop is about to read a token while an element is open
ReadsInElement ==
  /\ pc = "decode"
  /\ dec.err = NoError
  /\ dec.i < Len(dec.tokens)
  /\ dec.stack # <<>>

\* token k of the stream is the vocabulary's token for one of the strings in S
IsVocabToken(k, S) ==
  dec.tokens[k] \in DOMAIN tk.vocabInv /\ tk.vocabInv[dec.tokens[k]] \in S

\* token k of the stream is a vocabulary token whose string begins with prefix
IsVocabPrefixed(k, prefix) ==
  dec.tokens[k] \in DOMAIN tk.vocabInv /\ HasPrefix(tk.vocabInv[dec.tokens[k]], prefix)

\* the strings of the tokens a..b of the stream, concatenated
RECURSIVE StringsOf(_, _)
StringsOf(a, b) ==
  IF a > b THEN <<>> ELSE tokenStr(tk, dec.tokens[a]) \o StringsOf(a + 1, b)

\* token k ends the value of a registered attribute: the value-end control, an
\* open or close tag that is no attribute control, or another attribute key
EndsValue(k) ==
  \/ IsVocabToken(k, {TokenValueEnd})
  \/ IsVocabPrefixed(k, <<"<">>) /\ ~IsVocabToken(k, AttrControls)
  \/ IsVocabPrefixed(k, <<"@">>)

\* the first token after p that ends the value, or the end of the stream
ValueStop(p) ==
  IF \E k \in (p + 1)..Len(dec.tokens) : EndsValue(k)
  THEN CHOOSE k \in (p + 1)..Len(dec.tokens) :
         EndsValue(k) /\ \A m \in (p + 1)..(k - 1) : ~EndsValue(m)
  ELSE Len(dec.tokens) + 1

\* C13: after a registered-attribute key token DecodeXML accumulates the
\* following tokens into the value and stops at the first of the value-end
\* control token (consumed), an open or close tag token that is no attribute
\* control (left), another "@" key token (left), or the end of the stream; the
\* current element then gains exactly one attribute with that name and value.
RegisteredAttrDecoding ==
  [][(ReadsInElement /\ IsVocabPrefixed(dec.i + 1, <<"@">>)) =>
       LET p == dec.i + 1
           j == ValueStop(p)
           s == tk.vocabInv[dec.tokens[p]]
           consumed == j <= Len(dec.tokens) /\ IsVocabToken(j, {TokenValueEnd})
       IN  dec' = [dec EXCEPT
                     !.i = IF consumed THEN j ELSE j - 1,
                     !.heap = AddAttribute(dec.heap, dec.stack[Len(dec.stack)],
                                           SubSeq(s, 2, Len(s)),
                                           StringsOf(p + 1, j - 1))]]_vars

\* C14: when the empty-value control token immediately follows a
\* registered-attribute key token, DecodeXML records the attribute with the
\* empty string as value and scans no further token into the value, and the
\* marker itself produces no element and no text.
ExplicitEmptyValue ==
  [][/\ (/\ ReadsInElement
          /\ IsVocabPrefixed(dec.i + 1, <<"@">>)
          /\ dec.i + 2 <= Len(dec.tokens)
          /\ IsVocabToken(dec.i + 2, {TokenEmpty}))
           => LET s == tk.vocabInv[dec.tokens[dec.i + 1]] IN
              /\ dec'.heap = AddAttribute(dec.heap, dec.stack[Len(dec.stack)],
                                          SubSeq(s, 2, Len(s)), <<>>)
              /\ dec'.stack = dec.stack
              /\ dec'.i \in {dec.i + 1, dec.i + 2}
     /\ (/\ ReadsInElement
          /\ dec.i >= 1
          /\ IsVocabPrefixed(dec.i, <<"@">>)
          /\ IsVocabToken(dec.i + 1, {TokenEmpty}))
           => /\ dec'.heap = dec.heap
              /\ dec'.stack = dec.stack
              /\ dec'.err = NoError]_vars

\* the first bucket-close token after p, or the end of the stream
BucketStop(p) ==
  IF \E k \in (p + 1)..Len(dec.tokens) : IsVocabToken(k, {TokenAttrPairEnd})
  THEN CHOOSE k \in (p + 1)..Len(dec.tokens) :
         /\ IsVocabToken(k, {TokenAttrPairEnd})
         /\ \A m \in (p + 1)..(k - 1) : ~IsVocabToken(m, {TokenAttrPairEnd})
  ELSE Len(dec.tokens) + 1

\* the tokens that switch the state of the bucket scan
IsSwitch(k) == IsVocabToken(k, {TokenKey, TokenKeyEnd, TokenValue, TokenValueEnd})

\* the state of the scan at token k of a bucket opened at p: that of the last
\* switch between them
ScanState(p, k) ==
  LET sw == {m \in (p + 1)..(k - 1) : IsSwitch(m)} IN
  IF sw = {} THEN "none"
  ELSE LET last == CHOOSE m \in sw : \A n \in sw : n <= m IN
       IF IsVocabToken(last, {TokenKey}) THEN "key"
       ELSE IF IsVocabToken(last, {TokenValue}) THEN "value"
       ELSE "none"

\* the strings of the tokens a..b met in the given state, concatenated
RECURSIVE Scanned(_, _, _, _)
Scanned(p, a, b, state) ==
  IF a > b THEN <<>>
  ELSE (IF ~IsSwitch(a) /\ ScanState(p, a) = state
        THEN tokenStr(tk, dec.tokens[a]) ELSE <<>>)
         \o Scanned(p, a + 1, b, state)

\* C15: from a bucket-open control token DecodeXML switches a none/key/value
\* state on the key-open, key-close, value-open and value-close tokens, appends
\* what it reads in key state to the key and in value state to the value, and
\* stops at the bucket-close token or the end of the stream; it then adds
\* exactly one attribute (key, value) to the current element, also when the
\* stream ended before the bucket was closed.
UnregisteredAttrDecoding ==
  [][(ReadsInElement /\ IsVocabToken(dec.i + 1, {TokenAttrPair})) =>
       LET p == dec.i + 1
           e == BucketStop(p)
       IN  dec' = [dec EXCEPT
                     !.i = IF e <= Len(dec.tokens) THEN e ELSE Len(dec.tokens),
                     !.heap = AddAttribute(dec.heap, dec.stack[Len(dec.stack)],
                                           Scanned(p, p + 1, e - 1, "key"),
                                           Scanned(p, p + 1, e - 1, "value"))]]_vars

\* C15 witness: the stream of <A foo="v"> ended inside the value, before the
\* bucket was closed, and A has the attribute foo="v".
UnregisteredAttrDecodingWitness ==
  /\ pc = "decode"
  /\ dec.tokens = SubSeq(BucketStream, 1, 7)
  /\ dec.i = 7
  /\ dec.heap[dec.root].Attributes = <<Attr(UnregisteredName, <<"v">>)>>

-----------------------------------------------------------------------------
(* Close tags and stray controls in DecodeXML *)

\* DecodeXML's loop is about to read a close-tag token, no control end-token,
\* while no element is open
MeetsCloseTagAtRoot ==
  /\ pc = "decode"
  /\ dec.err = NoError
  /\ dec.i < Len(dec.tokens)
  /\ dec.stack = <<>>
  /\ IsVocabPrefixed(dec.i + 1, <<"<", "/">>)
  /\ ~IsVocabToken(dec.i + 1, {TokenAttrPairEnd, TokenKeyEnd, TokenValueEnd})

\* C16: when DecodeXML meets a close-tag token (other than a control
\* end-token) while its element stack is empty, it fails with an
\* unexpected-end-tag error naming the tag, and returns no tree.
UnexpectedEndTag ==
  [][/\ MeetsCloseTagAtRoot =>
          dec'.err = Error("UnexpectedEndTag", <<tk.vocabInv[dec.tokens[dec.i + 1]]>>)
     /\ (pc = "decode" /\ dec.err.kind = "UnexpectedEndTag") =>
          (pc' = "undecoded" /\ tree' = DecodeFailure(dec.err) /\ tree'.root = 0)]_vars

\* C16 witness: DecodeXML was called on the single token </A> and returned the
\* error and no tree.
UnexpectedEndTagWitness ==
  /\ pc = "undecoded"
  /\ dec.tokens = <<FullVocab[Close(<<"A">>)]>>
  /\ tree = DecodeFailure(Error("UnexpectedEndTag", <<Close(<<"A">>)>>))

\* DecodeXML's loop is about to read a key-open, key-close, value-open,
\* value-close or bucket-close token, outside any attribute sequence
MeetsStrayControl ==
  /\ pc = "decode"
  /\ dec.err = NoError
  /\ dec.i < Len(dec.tokens)
  /\ IsVocabToken(dec.i + 1, {TokenKey, TokenKeyEnd, TokenValue, TokenValueEnd,
                              TokenAttrPairEnd})

\* C17: a key-open, key-close, value-open, value-close or bucket-close control
\* token met outside an attribute sequence is skipped: the step raises no error
\* and changes nothing but the position, and DecodeXML returns what it returns
\* for the stream without that token.
StrayControlSkipped ==
  MeetsStrayControl =>
    /\ DecodeToken(tk, dec) = [dec EXCEPT !.i = dec.i + 1]
    /\ DecodeXML(tk, dec.tokens) = DecodeXML(tk, Remove(dec.tokens, dec.i + 1))

\* C17 witness: inside the open element A, after a text token, DecodeXML is
\* about to read a stray control token that is followed by more text.
StrayControlSkippedWitness ==
  /\ MeetsStrayControl
  /\ dec.stack # <<>>
  /\ dec.i = 2
  /\ dec.heap[dec.root].Children = <<ChildText(<<"t">>)>>
  /\ Len(dec.tokens) >= 4
  /\ dec.tokens[4] = ContentId("t")

-----------------------------------------------------------------------------
(* Fallback tokens *)

\* the six control tokens of the fallback form of an attribute
SixControls ==
  <<TokenUnregisteredAttr, TokenUnregisteredAttrEnd, TokenKey, TokenKeyEnd,
    TokenValue, TokenValueEnd>>

\* those of the six that the vocabulary lacks
AbsentControls(vocab) == SelectSeq(SixControls, LAMBDA c : c \notin DOMAIN vocab)

\* the vocabulary without any of the six
WithoutControls(vocab) == Without(vocab, {SixControls[i] : i \in 1..Len(SixControls)})

\* the "@name" strings the vocabulary lacks for the attributes of the document,
\* those named in skip left aside
AbsentAttrs(vocab, d, skip) ==
  UNION {{<<"@">> \o e.attrs[i].name : i \in {k \in 1..Len(e.attrs) :
                                                /\ e.attrs[k].name \notin skip
                                                /\ (<<"@">> \o e.attrs[k].name)
                                                     \notin DOMAIN vocab}}
         : e \in DocElements(d)}

\* Transform has failed for want of the tokens missing, naming one of attrs
FailsListing(attrs, missing) ==
  /\ pc' = "failed"
  /\ result'.err.kind = "MissingFallbackTokens"
  /\ Head(result'.err.what) \in attrs
  /\ Tail(result'.err.what) = missing

\* C18 as stated: Transform of a document with an attribute whose "@name" is
\* not in the vocabulary fails if any of the six fallback tokens is absent, the
\* error listing exactly the absent ones; it succeeds when all six are present;
\* and a document whose attributes are all registered never requires them.
FallbackRequired ==
  [][(pc = "ready" /\ doc # NoDoc) =>
       LET attrs == AbsentAttrs(tk.vocab, doc, {})
           missing == AbsentControls(tk.vocab)
       IN  /\ (attrs # {} /\ missing # <<>>) => FailsListing(attrs, missing)
           /\ (attrs # {} /\ missing = <<>>) => pc' = "encode"
           /\ attrs = {} =>
                Transform(tk.vocab, input) = Transform(WithoutControls(tk.vocab), input)]_vars

\* C18 amended: the same of a document whose tags are all in the vocabulary
\* and of its attributes other than arbor-ordered, which is never converted.
FallbackRequiredOfKnownTags ==
  [][(pc = "ready" /\ doc # NoDoc) =>
       LET attrs == AbsentAttrs(tk.vocab, doc, {ArborOrderedAttribute})
           missing == AbsentControls(tk.vocab)
           known == AbsentTags(tk.vocab, doc) = {}
       IN  /\ (known /\ attrs # {} /\ missing # <<>>) => FailsListing(attrs, missing)
           /\ (known /\ attrs # {} /\ missing = <<>>) => pc' = "encode"
           /\ attrs = {} =>
                Transform(tk.vocab, input) = Transform(WithoutControls(tk.vocab), input)]_vars

\* C18 witness: Transform failed on a document of known tags with the
\* unregistered attribute foo, listing the two fallback tokens the vocabulary
\* lacks.
FallbackRequiredOfKnownTagsWitness ==
  /\ pc = "failed"
  /\ doc # NoDoc
  /\ AbsentTags(tk.vocab, doc) = {}
  /\ result.err = Error("MissingFallbackTokens",
                        <<<<"@">> \o UnregisteredName, TokenKey, TokenValueEnd>>)

-----------------------------------------------------------------------------
(* Order of the attributes in a start tag *)

\* the sequences that list the elements of s in another order, or the same
Shuffles(s) == {[i \in 1..Len(s) |-> s[f[i]]] : f \in Orders(Len(s))}

\* the child lists got from kids by rewriting the start tags below them
RECURSIVE AttrVariants(_)
RECURSIVE AttrVariantsOfKids(_)
AttrVariantsOfKids(kids) ==
  IF kids = <<>> THEN {<<>>}
  ELSE {<<k>> \o rest : k \in AttrVariants(Head(kids)),
                        rest \in AttrVariantsOfKids(Tail(kids))}

\* the documents that differ from node only in the order in which attributes
\* are written inside start tags
AttrVariants(node) ==
  IF ~node.el THEN {node}
  ELSE {[node EXCEPT !.attrs = a, !.kids = ks] :
          a \in Shuffles(node.attrs), ks \in AttrVariantsOfKids(node.kids)}

\* no start tag of the document has two attributes of one name
DistinctAttrNames(d) ==
  \A e \in DocElements(d) : \A i, j \in 1..Len(e.attrs) :
    e.attrs[i].name = e.attrs[j].name => i = j

\* Transform and Tokenize give for every document of the set what they gave
\* for the input
SameOutputs(docs) ==
  \A v \in docs :
    /\ Transform(tk.vocab, MarkupOf(v)) = Transform(tk.vocab, input)
    /\ Tokenize(tk, MarkupOf(v)) = result

\* Tokenize has just returned, a result or an error
TokenizeReturned == pc \in {"failed", "tokenized"}

\* C19 as stated: two documents that differ only in the order attributes are
\* written inside start tags produce identical Transform output and identical
\* Tokenize results.
AttrOrderDeterminism ==
  (TokenizeReturned /\ doc # NoDoc) => SameOutputs(AttrVariants(doc))

\* C19 amended: the same of documents in whose start tags no two attributes
\* have the same name.
AttrOrderDeterminismOfDistinctNames ==
  (TokenizeReturned /\ doc # NoDoc /\ DistinctAttrNames(doc)) =>
    SameOutputs(AttrVariants(doc))

\* C19 witness: Tokenize returned a result for a document whose root was
\* written with id before foo, the reverse of the sorted order.
AttrOrderDeterminismOfDistinctNamesWitness ==
  /\ Tokenized
  /\ doc.attrs = <<Attr(RegisteredName, <<"v">>), Attr(UnregisteredName, <<"v">>)>>
  /\ Cardinality(AttrVariants(doc)) = 2

-----------------------------------------------------------------------------
(* Shape of a TokenizationResult *)

\* C20: in every TokenizationResult PaddedPaths has exactly one row per token,
\* all rows have the same width, the width is the length of the longest
\* unpadded path, and each row is the token's own path followed only by -1
\* entries.
ResultShape ==
  result.ok =>
    LET rows == result.PaddedPaths
        n == Len(result.Tokens)
    IN  /\ result.Tokens = enc.tokens
        /\ Len(rows) = n
        /\ Len(enc.paths) = n
        /\ \E w \in {Len(rows[i]) : i \in 1..n} :
             /\ \A i \in 1..n : Len(rows[i]) = w /\ Len(enc.paths[i]) <= w
             /\ \E i \in 1..n : Len(enc.paths[i]) = w
        /\ \A i \in 1..n :
             /\ SubSeq(rows[i], 1, Len(enc.paths[i])) = enc.paths[i]
             /\ \A j \in (Len(enc.paths[i]) + 1)..Len(rows[i]) : rows[i][j] = -1

\* C20 witness: a result whose rows are three wide, the first of them the root's
\* path followed by two -1 entries.
ResultShapeWitness ==
  /\ pc = "tokenized"
  /\ result.ok
  /\ Len(result.PaddedPaths) >= 3
  /\ result.PaddedPaths[1] = <<0, -1, -1>>

-----------------------------------------------------------------------------
(* getPaddedPaths called on any paths *)

\* most rows, and longest path, handed to getPaddedPaths
MaxRows == 3
MaxDepth == 2

\* the ragged paths, the widths and the pad values of the calls
RaggedPaths == SeqsUpTo(SeqsUpTo({0, 1}, MaxDepth), MaxRows)
Widths == (-1)..(MaxDepth + 1)
PadValues == {-1, 7}

\* getPaddedPaths(paths, maxDepth, padValue) is about to be called
PadInit ==
  /\ pc = "pad"
  /\ vocabFile = FullVocab
  /\ doc = NoDoc
  /\ input = <<>>
  /\ tk = NoTokenizer
  /\ enc = EncodeInit(<<>>)
  /\ dec = DecodeInit(<<>>)
  /\ result = NoResult
  /\ tree = NoTree
  /\ \E paths \in RaggedPaths, maxDepth \in Widths, padValue \in PadValues :
       calls = <<[paths |-> paths, maxDepth |-> maxDepth, padValue |-> padValue,
                  ret |-> <<>>]>>

\* the call returns the matrix, or panics in make([]int, maxDepth)
CallGetPaddedPaths ==
  /\ pc = "pad"
  /\ LET c == calls[1] IN
     IF getPaddedPathsPanics(c.paths, c.maxDepth)
     THEN pc' = "panicked" /\ calls' = calls
     ELSE /\ pc' = "padded"
          /\ calls' = [calls EXCEPT ![1].ret =
                         getPaddedPaths(c.paths, c.maxDepth, c.padValue)]
  /\ UNCHANGED <<vocabFile, doc, input, tk, enc, dec, result, tree>>

PadNext == CallGetPaddedPaths

PadSpec == PadInit /\ [][PadNext]_vars

\* row is path cut to width entries, or extended with pad up to width
CutOrPadded(row, path, width, pad) ==
  /\ Len(row) = width
  /\ \A j \in 1..width : row[j] = IF j <= Len(path) THEN path[j] ELSE pad

\* C21: getPaddedPaths(paths, w, pad) returns one row per input path; for
\* w > 0 every row has width w and row i is paths[i] truncated to w entries or
\* extended with pad up to w; for w = 0 the width is the maximum length among
\* the input paths.
PaddedToWidth ==
  pc = "padded" =>
    LET c == calls[1]
        n == Len(c.paths)
        longest == {w \in 0..MaxDepth :
                      /\ \A i \in 1..n : Len(c.paths[i]) <= w
                      /\ \E i \in 1..n : Len(c.paths[i]) = w}
    IN  /\ Len(c.ret) = n
        /\ c.maxDepth > 0 =>
             \A i \in 1..n : CutOrPadded(c.ret[i], c.paths[i], c.maxDepth, c.padValue)
        /\ c.maxDepth = 0 =>
             \A i \in 1..n : \E w \in longest :
               CutOrPadded(c.ret[i], c.paths[i], w, c.padValue)

\* C21 witness: a call with width 1 returned a row cut from a path of two
\* entries and a row made of the pad value for an empty path.
PaddedToWidthWitness ==
  /\ pc = "padded"
  /\ calls[1].maxDepth = 1
  /\ calls[1].paths = <<<<0, 1>>, <<>>>>
  /\ calls[1].padValue = 7
  /\ calls[1].ret = <<<<0>>, <<7>>>>

-----------------------------------------------------------------------------
(* Unregistered attributes in the token stream *)

\* token k of the encoder is the vocabulary's token for the string key
IsToken(k, key) == key \in DOMAIN tk.vocab /\ enc.tokens[k] = tk.vocab[key]

\* the first token after i that is the vocabulary's token for key, 0 if none
NextToken(i, key) ==
  IF \E k \in (i + 1)..Len(enc.tokens) : IsToken(k, key)
  THEN CHOOSE k \in (i + 1)..Len(enc.tokens) :
         IsToken(k, key) /\ \A m \in (i + 1)..(k - 1) : ~IsToken(m, key)
  ELSE 0

\* the tokens a..b are content tokens with the paths base ++ [0], [1], [2], ...
ContentRun(a, b, base) ==
  \A k \in a..b :
    enc.tokens[k] \in ContentIds /\ enc.paths[k] = Append(base, k - a)

\* the open token of the element that owns the attribute token i: the last
\* token before i whose path is one shorter
OwnerOf(i) ==
  LET above == {o \in 1..(i - 1) : Len(enc.paths[o]) = Len(enc.paths[i]) - 1} IN
  IF above = {} THEN 0 ELSE CHOOSE o \in above : \A m \in above : m <= o

\* the bucket opened by token i has the layout of C22 beneath the path P
BucketLayout(i, P) ==
  LET ke == NextToken(i, TokenKeyEnd)
      ve == NextToken(i, TokenValueEnd)
  IN  /\ enc.paths[i] = P \o <<0>>
      /\ ke > i + 1 /\ ve > ke + 1 /\ ve < Len(enc.tokens)
      /\ IsToken(i + 1, TokenKey) /\ enc.paths[i + 1] = P \o <<0, 0>>
      /\ ContentRun(i + 2, ke - 1, P \o <<0, 0>>)
      /\ enc.paths[ke] = P \o <<0, 0>>
      /\ IsToken(ke + 1, TokenValue) /\ enc.paths[ke + 1] = P \o <<0, 1>>
      /\ ContentRun(ke + 2, ve - 1, P \o <<0, 1>>)
      /\ enc.paths[ve] = P \o <<0, 1>>
      /\ IsToken(ve + 1, TokenUnregisteredAttrEnd) /\ enc.paths[ve + 1] = P \o <<0>>

\* C22: for every unregistered attribute of an element whose path is P, Encode
\* emits the bucket-open and bucket-close tokens with path P ++ [0], the
\* key-open and key-close tokens with P ++ [0, 0], the value-open and
\* value-close tokens with P ++ [0, 1], the key's content tokens with
\* P ++ [0, 0, i] and the value's with P ++ [0, 1, i], i = 0, 1, 2, ...
UnregisteredAttrLayout ==
  EncodeDone =>
    \A i \in 1..Len(enc.tokens) :
      IsToken(i, TokenUnregisteredAttr) =>
        /\ OwnerOf(i) > 0
        /\ \E name \in Names : IsToken(OwnerOf(i), Open(name))
        /\ BucketLayout(i, enc.paths[OwnerOf(i)])

\* C22 witness: Encode has finished a document in which an element below the
\* root has an unregistered attribute whose value made two content tokens.
UnregisteredAttrLayoutWitness ==
  /\ EncodeDone
  /\ \E i \in 1..Len(enc.tokens) :
       /\ IsToken(i, TokenUnregisteredAttr)
       /\ enc.paths[i] = <<0, 1, 0>>
       /\ NextToken(i, TokenValueEnd) = i + 7
       /\ enc.paths[i + 6] = <<0, 1, 0, 1, 1>>

-----------------------------------------------------------------------------
(* The two tables of a Tokenizer *)

\* C23: for every vocabulary that NewTokenizer accepts, reverse lookup inverts
\* lookup: vocabInv[vocab[s]] = s for every structural-token string s, so that
\* no two strings share an id.
BidirectionalVocab ==
  tk.ok =>
    /\ \A s \in DOMAIN tk.vocab :
         tk.vocab[s] \in DOMAIN tk.vocabInv /\ tk.vocabInv[tk.vocab[s]] = s
    /\ \A s, u \in DOMAIN tk.vocab : tk.vocab[s] = tk.vocab[u] => s = u

-----------------------------------------------------------------------------
(* Several calls on one Tokenizer *)

\* the goroutines that share the Tokenizer, and the size of their documents
MaxCalls == 2
MaxSharedSize == 2

\* what a goroutine is given: the markup for Tokenize, or the tokens for DecodeXML
TokenizeJob(markup) == [kind |-> "Tokenize", markup |-> markup, tokens |-> <<>>]
DecodeJob(tokens) == [kind |-> "DecodeXML", markup |-> <<>>, tokens |-> tokens]

\* the jobs: Tokenize of a small document, DecodeXML of the tokens of one
Jobs(t) ==
  {TokenizeJob(MarkupOf(d)) : d \in DocsUpTo(MaxSharedSize)}
    \cup {DecodeJob(Tokenize(t, MarkupOf(d)).Tokens) : d \in DocsUpTo(MaxSharedSize)}

\* the locals of a call that has just been made
NewCall(job) ==
  [kind |-> job.kind, pc |-> "called", enc |-> EncodeInit(<<>>),
   dec |-> DecodeInit(job.tokens), result |-> NoResult, tree |-> NoTree]

\* locals kept in one place for all the calls, as fields of the Tokenizer would be
LocalsOfFirst(cs, c) == cs[1]

\* the locals a call works on: its own
Locals(cs, c) == cs[c]

\* one Tokenizer was built; each goroutine is about to make its call; input
\* keeps what each was given
SharedInit ==
  /\ pc = "shared"
  /\ vocabFile = FullVocab
  /\ doc = NoDoc
  /\ tk \in {t \in NewTokenizer(FullVocab) : t.ok}
  /\ input \in [1..MaxCalls -> Jobs(tk)]
  /\ enc = EncodeInit(<<>>)
  /\ dec = DecodeInit(<<>>)
  /\ result = NoResult
  /\ tree = NoTree
  /\ calls = [c \in 1..MaxCalls |-> NewCall(input[c])]

\* call c moves its locals from the record L to the record new
Moves(c, new) ==
  /\ calls' = [calls EXCEPT ![c] = new]
  /\ UNCHANGED <<pc, vocabFile, doc, input, tk, enc, dec, result, tree>>

\* Tokenize of call c, up to the call of Encode
SharedTransform(c) ==
  LET L == Locals(calls, c)
      r == Transform(tk.vocab, input[c].markup)
  IN  /\ L.kind = "Tokenize" /\ L.pc = "called"
      /\ Moves(c, IF r.err # NoError
                   THEN [L EXCEPT !.pc = "failed", !.result = Failure(r.err)]
                   ELSE IF r.root = 0
                   THEN [L EXCEPT !.pc = "panicked", !.result = Panicked]
                   ELSE [L EXCEPT !.pc = "encode",
                                  !.enc = EncodeInit(String(r.heap, r.root))])

\* one iteration of the loop of Encode in call c
SharedEncode(c) ==
  LET L == Locals(calls, c) IN
  /\ L.pc = "encode"
  /\ L.enc.err = NoError
  /\ L.enc.pos <= Len(L.enc.events)
  /\ Moves(c, [L EXCEPT !.enc = EncodeToken(tk.vocab, L.enc, L.enc.events[L.enc.pos])])

\* Encode returns in call c
SharedEncodeReturn(c) ==
  LET L == Locals(calls, c) IN
  /\ L.pc = "encode"
  /\ L.enc.err # NoError \/ L.enc.pos > Len(L.enc.events)
  /\ Moves(c, IF L.enc.err # NoError
               THEN [L EXCEPT !.pc = "failed", !.result = Failure(L.enc.err)]
               ELSE [L EXCEPT !.pc = "tokenized", !.result = EncodeResult(L.enc)])

\* one iteration of the loop of DecodeXML in call c
SharedDecode(c) ==
  LET L == Locals(calls, c) IN
  /\ L.kind = "DecodeXML" /\ L.pc = "called"
  /\ L.dec.err = NoError
  /\ L.dec.i < Len(L.dec.tokens)
  /\ Moves(c, [L EXCEPT !.dec = DecodeToken(tk, L.dec)])

\* DecodeXML returns in call c
SharedDecodeReturn(c) ==
  LET L == Locals(calls, c) IN
  /\ L.kind = "DecodeXML" /\ L.pc = "called"
  /\ L.dec.err # NoError \/ L.dec.i >= Len(L.dec.tokens)
  /\ Moves(c, IF L.dec.err # NoError
               THEN [L EXCEPT !.pc = "undecoded", !.tree = DecodeFailure(L.dec.err)]
               ELSE [L EXCEPT !.pc = "decoded", !.tree = DecodeResult(L.dec)])

SharedNext ==
  \E c \in 1..MaxCalls :
    \/ SharedTransform(c)
    \/ SharedEncode(c)
    \/ SharedEncodeReturn(c)
    \/ SharedDecode(c)
    \/ SharedDecodeReturn(c)

SharedSpec == SharedInit /\ [][SharedNext]_vars

\* call c has returned
Returned(c) == calls[c].pc \in {"failed", "panicked", "tokenized", "decoded", "undecoded"}

\* call c returned what the same call returns when it runs alone
AsAlone(c) ==
  IF input[c].kind = "Tokenize"
  THEN calls[c].result = Tokenize(tk, input[c].markup)
  ELSE calls[c].tree = DecodeXML(tk, input[c].tokens)

-----------------------------------------------------------------------------
(* Text runs *)

\* the CharData case has just run on a text of element E, the top of the stack:
\* token m of the run has the path of E followed by the counter of E plus
\* m - 1, and the counter of E has moved by the length of the run
RunIndexed ==
  (pc = "encode" /\ enc'.pos = enc.pos + 1 /\ enc.events[enc.pos].type = "chardata"
     /\ Len(enc.stack) > 0)
    => LET d == Len(enc.stack)
           c == enc.stack[d].childrenCounter
           k == Len(enc'.tokens) - Len(enc.tokens)
       IN  /\ k = Len(ContentEncode(enc.events[enc.pos].data))
           /\ \A m \in 1..k :
                enc'.paths[Len(enc.paths) + m] = Append(getCurrentPath(enc.stack), c + m - 1)
           /\ enc'.stack[d].childrenCounter = c + k

\* kids i and j of the element at depth d are child elements with a text run,
\* and nothing else, between them
AroundRun(d, i, j) ==
  /\ i + 1 < j
  /\ enc.kids[d][i].kind = "elem" /\ enc.kids[d][j].kind = "elem"
  /\ \A m \in (i + 1)..(j - 1) : enc.kids[d][m].kind = "text"

\* neighbouring tokens of one run have consecutive indices
RunConsecutive(d) ==
  \A i \in 1..(Len(enc.kids[d]) - 1) :
    (enc.kids[d][i].kind = "text" /\ enc.kids[d][i + 1].kind = "text")
      => enc.kids[d][i + 1].idx = enc.kids[d][i].idx + 1

\* C25 as stated: each content token of a text run directly under element E
\* gets the path of E followed by E's sibling counter, which then moves by one,
\* whether E is ordered or not; the tokens of a run have consecutive indices,
\* and an element child that follows a run of k tokens is indexed k higher
\* than the one that precedes it.
TextIndexing ==
  /\ [][RunIndexed]_vars
  /\ [](\A d \in 1..Len(enc.stack) :
          /\ RunConsecutive(d)
          /\ \A i, j \in 1..Len(enc.kids[d]) :
               AroundRun(d, i, j)
                 => enc.kids[d][j].idx = enc.kids[d][i].idx + (j - i - 1))

\* C25 amended: as stated, but the element child that follows a run of k
\* tokens is indexed k higher than the one that precedes it when E is
\* unordered, and k + 1 higher when E is ordered.
TextIndexingByOrder ==
  /\ [][RunIndexed]_vars
  /\ [](\A d \in 1..Len(enc.stack) :
          /\ RunConsecutive(d)
          /\ \A i, j \in 1..Len(enc.kids[d]) :
               AroundRun(d, i, j)
                 => enc.kids[d][j].idx
                      = enc.kids[d][i].idx + (j - i - 1)
                          + (IF enc.stack[d].ordered THEN 1 ELSE 0))

\* C25 witness: an ordered element has a child element, a text token and a
\* second child element, indexed 1, 2 and 3.
TextIndexingByOrderWitness ==
  /\ pc = "encode"
  /\ \E d \in 1..Len(enc.stack) :
       /\ enc.stack[d].ordered
       /\ Len(enc.kids[d]) = 3
       /\ AroundRun(d, 1, 3)
       /\ enc.kids[d][1].idx = 1 /\ enc.kids[d][2].idx = 2 /\ enc.kids[d][3].idx = 3

-----------------------------------------------------------------------------
(* The ordered flag *)

\* the start tag read when the item at depth d of Encode's stack was pushed
StartTagOf(d) == enc.events[enc.origin[enc.opens[d]]]

\* the start tag carries arbor-ordered with the value v
CarriesOrdered(se, v) ==
  \E i \in 1..Len(se.attr) :
    se.attr[i].name = ArborOrderedAttribute /\ se.attr[i].value = v

\* the start tag opens a registered-attribute wrapper, an unregistered-attribute
\* bucket or a value slot
AlwaysOrdered(se) ==
  \/ se.name = VirtualAttrTag
  \/ <<"<">> \o se.name \o <<">">> = TokenUnregisteredAttr
  \/ <<"<">> \o se.name \o <<">">> = TokenValue

-----------------------------------------------------------------------------
(* Encode called on its own *)

\* the size of the documents handed to Encode
MaxEncodeSize == 3

\* the vocabularies of the Encoder: complete, or without a close tag, a tag
\* pair, the key of the registered attribute, or a control token
EncodeVocabs ==
  {FullVocab,
   Without(FullVocab, {Close(<<"B">>)}),
   Without(FullVocab, {Open(<<"B">>), Close(<<"B">>)}),
   Without(FullVocab, {<<"@">> \o RegisteredName}),
   Without(FullVocab, {TokenValueEnd}),
   Without(FullVocab, {TokenUnregisteredAttr, TokenUnregisteredAttrEnd})}

\* the markups read by Encode: documents as written, documents as Transform
\* hands them over, each of them also followed by one more close tag, and a
\* close tag alone
EncodeInputs ==
  LET written == {MarkupOf(d) : d \in DocsUpTo(MaxEncodeSize)}
      made == {String(r.heap, r.root) :
                 r \in {Transform(FullVocab, m) : m \in written}}
      whole == written \cup made
  IN  whole \cup {m \o Close(n) : m \in whole, n \in Names} \cup {Close(n) : n \in Names}

\* NewEncoder(vocab, contentTokenizer) was called and Encode(r) has made its
\* decoder
EncodeOnlyInit ==
  /\ pc = "encode"
  /\ vocabFile \in EncodeVocabs
  /\ doc = NoDoc
  /\ input \in EncodeInputs
  /\ tk \in {t \in NewTokenizer(vocabFile) : t.ok}
  /\ enc = EncodeInit(input)
  /\ dec = DecodeInit(<<>>)
  /\ result = NoResult
  /\ tree = NoTree
  /\ calls = <<>>

EncodeNext == EncodeStart \/ EncodeEnd \/ EncodeChars \/ EncodeReturn

EncodeSpec == EncodeOnlyInit /\ [][EncodeNext]_vars

\* event i is a key or value tag that extractRegisteredAttrName reads after the
\* start tag of a registered-attribute wrapper
ReadByWrapper(events, i) ==
  \E w \in {i - 1, i - 3, i - 4} :
    w >= 1 /\ events[w].type = "start" /\ events[w].name = VirtualAttrTag

\* the vocabulary string of the tag that event i is: "@name" for the start of
\* a registered-attribute wrapper and </__Value> for its end, <__Empty/> for
\* both tags of the empty marker, the tag as written otherwise
TagString(events, i) ==
  LET ev == events[i] IN
  IF ev.type = "start"
  THEN IF ev.name = VirtualAttrTag
       THEN <<"@">> \o extractRegisteredAttrName(events, i + 1).name
       ELSE IF Open(ev.name) = <<"<", "__", "Empty", ">">> THEN TokenEmpty
       ELSE Open(ev.name)
  ELSE IF ev.name = VirtualAttrTag THEN TokenValueEnd
       ELSE IF Open(ev.name) = <<"<", "__", "Empty", ">">> THEN TokenEmpty
       ELSE Close(ev.name)

\* the tags of the given kinds in Encode's input that have no vocabulary entry
AbsentStrings(vocab, events, kinds) ==
  {TagString(events, i) :
     i \in {k \in 1..Len(events) :
              /\ events[k].type \in kinds
              /\ ~ReadByWrapper(events, k)
              /\ TagString(events, k) \notin DOMAIN vocab}}

\* C27: Encode returns an error and no result whenever a tag of its input,
\* open or close, or the "@name" of a registered-attribute wrapper has no
\* vocabulary entry.
EncoderStrictness ==
  (TokenizeReturned /\ AbsentStrings(tk.vocab, enc.events, {"start", "end"}) # {})
    => /\ ~result.ok
       /\ result.Tokens = <<>> /\ result.PaddedPaths = <<>>

\* Encode stopped at a close tag that had no element to close: the decoder
\* reported it, or the EndElement case found the stack empty
StoppedAtStrayClose ==
  \/ /\ enc.pos <= Len(enc.events)
     /\ enc.events[enc.pos].type = "error"
     /\ enc.events[enc.pos].name # <<>>
  \/ enc.err.kind = "UnexpectedEndToken"

\* C28: Encode fails with an unexpected-end error, returning no result, when a
\* close tag arrives while its element stack is empty; an end event that pops
\* the stack never finds it empty.
UnexpectedEndToken ==
  /\ NextEvent("end") => Len(enc.stack) > 0
  /\ (pc = "encode" /\ StoppedAtStrayClose) => Len(enc.stack) = 0
  /\ (TokenizeReturned /\ StoppedAtStrayClose)
       => /\ ~result.ok
          /\ result.err.kind \in {"MalformedMarkup", "UnexpectedEndToken"}
          /\ result.err.what # <<>>
          /\ result.Tokens = <<>> /\ result.PaddedPaths = <<>>

\* C28 witness: Encode read <A></A></A> or the like, emptied its stack at the
\* first close tag and failed at the second, naming it.
UnexpectedEndTokenWitness ==
  /\ pc = "failed"
  /\ enc.pos = 3
  /\ enc.events[1].type = "start" /\ enc.events[2].type = "end"
  /\ enc.events[3] = UnexpectedEnd(<<"A">>)
  /\ enc.tokens # <<>> /\ enc.stack = <<>>
  /\ result = Failure(Error("MalformedMarkup", <<Close(<<"A">>)>>))

-----------------------------------------------------------------------------
(* The tree returned by Transform, against the document *)

\* Transform has just returned its tree to Tokenize
Transformed == pc = "encode" /\ enc.pos = 1 /\ doc # NoDoc

\* the children of e that the Transformer made of attributes, and the others
\* that are elements
Synthetic(heap, e) ==
  SelectSeq(heap[e].Children, LAMBDA c : c.isEl /\ ~IsDocName(heap[c.ref].Name))
DocChildren(heap, e) ==
  SelectSeq(heap[e].Children, LAMBDA c : c.isEl /\ IsDocName(heap[c.ref].Name))
ElemKids(node) == SelectSeq(node.kids, LAMBDA k : k.el)

\* the pairs <<element of the tree, element of the document>> that correspond,
\* from the roots down, child elements taken in order
RECURSIVE Corresponding(_, _, _)
Corresponding(heap, e, node) ==
  LET cs == DocChildren(heap, e)
      ks == ElemKids(node)
      n == IF Len(cs) < Len(ks) THEN Len(cs) ELSE Len(ks)
  IN  {<<e, node>>} \cup UNION {Corresponding(heap, cs[i].ref, ks[i]) : i \in 1..n}

\* the key and the value written in the synthetic child w: the text of its
\* first child, and the text in its second child (none: the empty string)
KeyOf(heap, w) == heap[heap[w].Children[1].ref].Children[1].text
SlotOf(heap, w) == heap[heap[w].Children[2].ref].Children
ValueOf(heap, w) ==
  LET slot == SlotOf(heap, w) IN
  IF slot = <<>> \/ slot[1].isEl THEN <<>> ELSE slot[1].text

\* w is a synthetic child made of the attribute a
MadeOf(heap, w, a) ==
  /\ heap[w].Name \in {VirtualAttrTag, Trim(TokenUnregisteredAttr, {"<", ">"})}
  /\ Len(heap[w].Children) = 2
  /\ KeyOf(heap, w) = a.name
  /\ ValueOf(heap, w) = a.value

\* element e of the tree is the element node of the document with the
\* attributes in `kept` left on it and one synthetic child for each other one
Stripped(heap, e, node, kept) ==
  LET others == SelectSeq(node.attrs, LAMBDA a : a.name # ArborOrderedAttribute)
      syn == Synthetic(heap, e)
  IN  /\ heap[e].Name = node.name
      /\ heap[e].Attributes = kept
      /\ Len(DocChildren(heap, e)) = Len(ElemKids(node))
      /\ Len(syn) = Len(others)
      /\ \A k \in 1..Len(others) :
           Cardinality({i \in 1..Len(syn) : MadeOf(heap, syn[i].ref, others[k])}) = 1

\* C29 as stated: every element of the tree returned by Transform carries the
\* arbor-ordered attribute exactly when the input element has it with the
\* value "true", and no other attribute; every other input attribute appears
\* as exactly one synthetic child of that element.
AttributeStripping ==
  Transformed =>
    LET r == Transform(tk.vocab, input) IN
    \A p \in Corresponding(r.heap, r.root, doc) :
      Stripped(r.heap, p[1], p[2],
               SelectSeq(p[2].attrs, LAMBDA a : /\ a.name = ArborOrderedAttribute
                                                /\ a.value = <<"true">>))

\* C29 amended: every element of the tree returned by Transform carries the
\* arbor-ordered attribute, with its value, exactly when the input element
\* has it, whatever the value, and no other attribute; every other input
\* attribute appears as exactly one synthetic child of that element.
AttributeStrippingOfAnyValue ==
  Transformed =>
    LET r == Transform(tk.vocab, input) IN
    \A p \in Corresponding(r.heap, r.root, doc) :
      Stripped(r.heap, p[1], p[2],
               SelectSeq(p[2].attrs, LAMBDA a : a.name = ArborOrderedAttribute))

\* C29 witness: Transform returned the tree of an element with
\* arbor-ordered="true" and two more attributes, which has the one attribute
\* and two synthetic children.
AttributeStrippingOfAnyValueWitness ==
  /\ Transformed
  /\ Len(doc.attrs) = 3
  /\ doc.attrs[1] = Attr(ArborOrderedAttribute, <<"true">>)
  /\ LET r == Transform(tk.vocab, input) IN
     /\ r.heap[r.root].Attributes = <<doc.attrs[1]>>
     /\ Len(Synthetic(r.heap, r.root)) = 2

\* the value slot holds the empty marker and nothing else
HoldsMarker(heap, slot) ==
  /\ Len(slot) = 1
  /\ slot[1].isEl
  /\ heap[slot[1].ref] = NewElement(Trim(TokenEmpty, {"<", ">", " ", "/"}), <<>>)

\* C30: for a registered attribute, Transform puts the empty-marker child in
\* the value slot if and only if the value is the empty string and the
\* empty-marker token is in the vocabulary; a non-empty value becomes a single
\* text child, and an empty value without the marker token leaves the value
\* slot with no child.
EmptyRegisteredValue ==
  Transformed =>
    LET r == Transform(tk.vocab, input) IN
    \A p \in Corresponding(r.heap, r.root, doc) :
      \A k \in 1..Len(p[2].attrs) :
        LET a == p[2].attrs[k]
            made == {c.ref : c \in {c \in Range(Synthetic(r.heap, p[1])) :
                                      /\ r.heap[c.ref].Name = VirtualAttrTag
                                      /\ MadeOf(r.heap, c.ref, a)}}
        IN  (<<"@">> \o a.name) \in DOMAIN tk.vocab =>
              /\ made # {}
              /\ \A w \in made :
                   LET slot == SlotOf(r.heap, w) IN
                   /\ HoldsMarker(r.heap, slot)
                        <=> (a.value = <<>> /\ TokenEmpty \in DOMAIN tk.vocab)
                   /\ a.value # <<>> => slot = <<ChildText(a.value)>>
                   /\ (a.value = <<>> /\ TokenEmpty \notin DOMAIN tk.vocab) => slot = <<>>

\* C30 witness: Transform returned the tree of <A id=""></A> under a vocabulary
\* with the marker token, and the value slot holds the marker.
EmptyRegisteredValueWitness ==
  /\ Transformed
  /\ TokenEmpty \in DOMAIN tk.vocab
  /\ doc.attrs = <<Attr(RegisteredName, <<>>)>>
  /\ LET r == Transform(tk.vocab, input)
         syn == Synthetic(r.heap, r.root)
     IN  Len(syn) = 1 /\ HoldsMarker(r.heap, SlotOf(r.heap, syn[1].ref))

-----------------------------------------------------------------------------
(* The shape of the paths *)

\* p is q with exactly one more index
ExtendsByOne(p, q) == Len(p) = Len(q) + 1 /\ SubSeq(p, 1, Len(q)) = q

\* one iteration of Encode's loop: every token it emits belongs to a child of
\* the element E that is on top of the stack below the node opened or closed
\* (for text: on top of the stack), and its path is the path of E's open token
\* with exactly one more index; without such an element the path is <<0>>
ChildPaths ==
  pc = "encode" =>
    LET below == IF Len(enc'.stack) < Len(enc.stack)
                 THEN Len(enc'.stack) ELSE Len(enc.stack)
    IN  \A j \in (Len(enc.paths) + 1)..Len(enc'.paths) :
          IF below = 0 THEN enc'.paths[j] = <<0>>
          ELSE ExtendsByOne(enc'.paths[j], enc.paths[enc.opens[below]])

\* C31: every path Encode emits is non-empty, begins with 0 and has only
\* non-negative entries; the path of every token that belongs to a child of
\* element E is the path of E's open token extended by exactly one index, so
\* the path of E is a proper prefix of the path of every token in E's subtree.
PathStructure ==
  /\ [](\A j \in 1..Len(enc.paths) :
          /\ enc.paths[j] # <<>>
          /\ enc.paths[j][1] = 0
          /\ \A k \in 1..Len(enc.paths[j]) : enc.paths[j][k] >= 0)
  /\ [](\A d \in 1..Len(enc.stack) :
          \A j \in (enc.opens[d] + 1)..Len(enc.paths) :
            /\ Len(enc.paths[j]) > Len(enc.paths[enc.opens[d]])
            /\ HasPrefix(enc.paths[j], enc.paths[enc.opens[d]]))
  /\ [][ChildPaths]_vars

\* C31 witness: Encode is inside an element two levels below the root and has
\* emitted a token there, whose path has four indices and extends the paths
\* of the three open elements.
PathStructureWitness ==
  /\ pc = "encode"
  /\ Len(enc.stack) = 3
  /\ Len(enc.paths) > enc.opens[3]
  /\ Len(enc.paths[Len(enc.paths)]) = 4
  /\ \A d \in 1..3 : HasPrefix(enc.paths[Len(enc.paths)], enc.paths[enc.opens[d]])

-----------------------------------------------------------------------------
(* Text children *)

\* no element of the heap has two text children in a row
NoAdjacentText(heap) ==
  \A e \in 1..Len(heap) :
    \A i \in 1..(Len(heap[e].Children) - 1) :
      heap[e].Children[i].isEl \/ heap[e].Children[i + 1].isEl

\* C32: in every tree returned by Transform and in every tree returned by
\* DecodeXML no element has two consecutive text children: adjacent text is
\* concatenated into one text child.
NoAdjacentTextSiblings ==
  /\ (pc = "encode" /\ enc.pos = 1) => NoAdjacentText(Transform(tk.vocab, input).heap)
  /\ pc = "decoded" => NoAdjacentText(tree.heap)

-----------------------------------------------------------------------------
(* Truncated token sequences *)

\* C33: for every document that Tokenize accepts and every prefix of the
\* resulting token sequence, DecodeXML returns without error.
TruncationTolerance ==
  pc = "tokenized" =>
    \A n \in 0..Len(result.Tokens) :
      DecodeXML(tk, SubSeq(result.Tokens, 1, n)).err = NoError

\* C34: getPaddedPaths returns a matrix for every input (any list of paths,
\* any integer width including negative ones, any pad value) and never
\* modifies the input paths.
PaddingTotalAndPure ==
  /\ [](pc \in {"pad", "padded"})
  /\ [](pc = "padded" => Len(calls[1].ret) = Len(calls[1].paths))
  /\ [][calls'[1].paths = calls[1].paths]_vars

-----------------------------------------------------------------------------
(* The errors of DecodeXML *)

TextChildren(heap, e) == SelectSeq(heap[e].Children, LAMBDA c : ~c.isEl)

\* what the content tokenizer decodes of the tokens a..b of the stream that
\* are content tokens
RECURSIVE ContentOnly(_, _)
ContentOnly(a, b) ==
  IF a > b THEN <<>>
  ELSE (IF dec.tokens[a] \in DOMAIN tk.vocabInv THEN <<>>
        ELSE ContentDecode(<<dec.tokens[a]>>))
         \o ContentOnly(a + 1, b)

\* C36: the text that DecodeXML stores, as a registered-attribute value or as
\* a text child, is made of decoded content tokens only: reading a vocabulary
\* token changes no text child, and the value stored for a registered
\* attribute is what the content tokens read for it decode to.
StoresContentOnly ==
  [][(pc = "decode" /\ dec.err = NoError /\ dec.i < Len(dec.tokens)
        /\ dec.tokens[dec.i + 1] \in DOMAIN tk.vocabInv)
       => /\ \A e \in 1..Len(dec.heap) :
               TextChildren(dec'.heap, e) = TextChildren(dec.heap, e)
          /\ (IsVocabPrefixed(dec.i + 1, <<"@">>) /\ dec.stack # <<>>)
               => LET attrs == dec'.heap[dec.stack[Len(dec.stack)]].Attributes
                  IN  attrs[Len(attrs)].value = ContentOnly(dec.i + 2, dec'.i)]_vars

\* C37: pipeline consistency: once Transform has succeeded on a document and
\* its tree has been serialized, Encode of the serialized tree does not fail,
\* so a failure of Tokenize is always the error Transform returned
EncodeFollowsTransform ==
  /\ [][pc = "encode" => pc' # "failed"]_vars
  /\ [](pc = "failed" => /\ Transform(tk.vocab, input).err # NoError
                         /\ result = Failure(Transform(tk.vocab, input).err))

-----------------------------------------------------------------------------
(* Termination of DecodeXML *)

\* DecodeXML runs on: a loop that can iterate does iterate, and a loop that has
\* ended returns
DecodeFairSpec == DecodeSpec /\ WF_vars(StreamNext)

\* C38: DecodeXML terminates on every finite token list: the read position
\* stays within the list, every iteration of the main loop moves it forward by
\* at least one token and leaves the list alone, and the call returns
DecodeTerminates ==
  /\ [](pc = "decode" => dec.i \in 0..Len(dec.tokens))
  /\ [][(pc = "decode" /\ pc' = "decode")
          => dec'.i > dec.i /\ dec'.tokens = dec.tokens]_vars
  /\ <>(pc \in {"decoded", "undecoded"})

\* a call has returned whose last iteration read an attribute value up to the
\* end of the list: the content token that ends the list is in no text child
DecodeTerminatesWitness ==
  /\ pc = "decoded"
  /\ Len(dec.tokens) >= 3
  /\ dec.i = Len(dec.tokens)
  /\ dec.tokens[Len(dec.tokens)] \notin DOMAIN tk.vocabInv
  /\ Len(dec.stack) > 0
  /\ \E e \in 1..Len(dec.heap) : dec.heap[e].Attributes # <<>>
  /\ \A e \in 1..Len(dec.heap) : dec.heap[e].Children = <<>>

-----------------------------------------------------------------------------
(* Frame of one Encode iteration *)

\* s is t, but for the sibling counter
SameButCounter(s, t) == s = [t EXCEPT !.childrenCounter = s.childrenCounter]

\* C39: one open, close or text event of Encode leaves the tokens and paths
\* already emitted as they are, leaves every stack item below the top as it
\* is, pops at most the top, and changes of the top at most its sibling counter
EncoderFrame ==
  [][(pc = "encode" /\ pc' = "encode")
       => LET n == Len(enc.stack)
              m == Len(enc'.stack)
          IN  /\ Len(enc'.tokens) >= Len(enc.tokens)
              /\ SubSeq(enc'.tokens, 1, Len(enc.tokens)) = enc.tokens
              /\ Len(enc'.paths) >= Len(enc.paths)
              /\ SubSeq(enc'.paths, 1, Len(enc.paths)) = enc.paths
              /\ m >= n - 1
              /\ \A d \in 1..(n - 1) : enc'.stack[d] = enc.stack[d]
              /\ (n > 0 /\ m >= n) => SameButCounter(enc'.stack[n], enc.stack[n])]_vars

\* three elements are open, tokens were emitted, and the counter of the top
\* has moved while the counters below it stand where they were pushed
EncoderFrameWitness ==
  /\ pc = "encode"
  /\ Len(enc.stack) = 3
  /\ Len(enc.tokens) >= 4
  /\ enc.stack[3].childrenCounter >= 2
  /\ enc.stack[2].childrenCounter = 1
  /\ enc.stack[1].childrenCounter = 1

====
